---- MODULE Spec2Model ----
(***************************************************************************)
(* Model of the art-grid generators of SVG_ArtGrid_Forked_UI:              *)
(*   ComfyUI_PNGArtGridGeneratorNode.py  (raster backend, Pillow)          *)
(*   SVG_ArtGrid.py                      (vector backend, svgwrite)        *)
(*   SVG_Character_Creator_UI.py         (humanoid generator)              *)
(* and of the handler run_generation_and_save of the two windows.          *)
(*                                                                         *)
(* Conventions.                                                            *)
(*  - A Python str is a sequence of one-character strings; a palette entry *)
(*    is a record [str, s]: str = FALSE is an entry that is not a string.  *)
(*  - The chaos factor is held in hundredths (0..100).                     *)
(*  - A Python float that is a length or a factor is held in thousandths   *)
(*    (fixed point, truncated); an int stays an int.                       *)
(*  - The random module's hidden state is the record rng = [s, t]: s is    *)
(*    the generator's state and t a tape of outcomes still to be served    *)
(*    (empty in the generators' specification; used to enumerate every     *)
(*    outcome of a helper's draws).  One call of random.random, uniform,   *)
(*    randint or choice is one draw; its raw value u stands for the        *)
(*    fraction u / RngModulus of [0, 1).                                   *)
(*  - A function that can raise returns a record with a field exc ("" when *)
(*    it returned normally).                                               *)
(*  - fonts is the set of the font files that ImageFont.truetype can load  *)
(*    on the machine.                                                      *)
(*                                                                         *)
(* Spec is the specification of the two art-grid generators and of their   *)
(* callers; SpecColors is the specification of the colour helpers called   *)
(* on their own, SpecStyles that of the style generators called on their   *)
(* own, SpecHumanoid that of the humanoid generator and SpecSave that of   *)
(* the handler run_generation_and_save.                                    *)
(***************************************************************************)
EXTENDS Integers, Sequences, FiniteSets, TLC

VARIABLES rng, req, last, fonts

vars == <<rng, req, last, fonts>>

(***************************************************************************)
(* Bounds of the model.                                                    *)
(***************************************************************************)
\* number of states of the pseudo-random generator (raw values 0..RngModulus-1)
RngModulus == 16

\* largest number of rows and of columns of a requested grid
MaxGrid == 3

\* largest number of big blocks a raster request asks for
MaxBigBlocks == 2

\* the system's entropy hands random.seed() one of MaxEntropy + 1 values
MaxEntropy == 2

(***************************************************************************)
(* Small helpers.                                                          *)
(***************************************************************************)
Abs(n) == IF n < 0 THEN -n ELSE n

Min2(a, b) == IF a <= b THEN a ELSE b

Max2(a, b) == IF a >= b THEN a ELSE b

\* the elements of s that satisfy Keep, in order (a list comprehension with a filter)
SelectSeqIdx(s, Keep(_)) ==
    LET F[i \in 0..Len(s)] ==
            IF i = 0 THEN << >>
            ELSE IF Keep(s[i]) THEN Append(F[i-1], s[i]) ELSE F[i-1]
    IN F[Len(s)]

(***************************************************************************)
(* The random module.                                                      *)
(***************************************************************************)
\* the raw value the generator hands out at the position c of its cycle
Raw(c) == (c * (2 * c + 1)) % RngModulus

\* random.seed(a) for an int a: the state is a function of abs(a) alone
SeedState(a) == [s |-> (7 * Abs(a) + 1) % RngModulus, t |-> << >>]

\* random.seed() without argument: the state comes from the system's entropy e
EntropyState(e) == [s |-> e % RngModulus, t |-> << >>]

\* the raw value of the k-th draw made from the state g (k from 1)
D(g, k) ==
    IF k <= Len(g.t) THEN g.t[k] % RngModulus
    ELSE Raw((g.s + (k - Len(g.t)) - 1) % RngModulus)

\* the state after n draws made from the state g
AdvN(g, n) ==
    IF n <= Len(g.t) THEN [s |-> g.s, t |-> SubSeq(g.t, n + 1, Len(g.t))]
    ELSE [s |-> (g.s + (n - Len(g.t))) % RngModulus, t |-> << >>]

\* random.random() < num/den, for the raw value u
Below(u, num, den) == u * den < num * RngModulus

\* random.uniform(a, b), a and b in thousandths
Uniform(u, a, b) == a + ((b - a) * u) \div RngModulus

\* random.randint(a, b), a <= b
RandInt(u, a, b) == a + (u * (b - a + 1)) \div RngModulus

\* random.choice(seq), seq not empty: the index chosen
ChoiceIdx(u, n) == 1 + (u * n) \div RngModulus

(***************************************************************************)
(* The events a generation call leaves: the draws it made and the drawing  *)
(* operations it issued, in program order.                                 *)
(*   t: "draw" or "op"; by: the function that made it; n: the random call  *)
(*   or the drawing primitive; a: its outcome or its arguments; col: the   *)
(*   fill of a drawing operation; ph, cell: the step of the compositor     *)
(*   that was running (set by the compositor).                             *)
(***************************************************************************)
Drw(by, n, v) == [t |-> "draw", by |-> by, n |-> n, a |-> <<v>>, col |-> << >>, ph |-> "", cell |-> << >>]

Op(by, n, a, col) == [t |-> "op", by |-> by, n |-> n, a |-> a, col |-> col, ph |-> "", cell |-> << >>]

Tag(evs, ph, cell) == [i \in 1..Len(evs) |-> [evs[i] EXCEPT !.ph = ph, !.cell = cell]]

(***************************************************************************)
(* Strings and hex colours.                                                *)
(***************************************************************************)
Str(s) == [str |-> TRUE, s |-> s]

\* a palette entry that is not a string (a number in the JSON file)
NonStr == [str |-> FALSE, s |-> << >>]

HexDigitsUpper == <<"0","1","2","3","4","5","6","7","8","9","A","B","C","D","E","F">>

HexDigitsLower == <<"0","1","2","3","4","5","6","7","8","9","a","b","c","d","e","f">>

IsHexChar(ch) == \E i \in 1..16 : HexDigitsUpper[i] = ch \/ HexDigitsLower[i] = ch

HexVal(ch) == (CHOOSE i \in 1..16 : HexDigitsUpper[i] = ch \/ HexDigitsLower[i] = ch) - 1

\* f"{n:02X}" and f"{n:02x}" for 0 <= n <= 255
Fmt02X(n) == <<HexDigitsUpper[(n \div 16) + 1], HexDigitsUpper[(n % 16) + 1]>>

Fmt02x(n) == <<HexDigitsLower[(n \div 16) + 1], HexDigitsLower[(n % 16) + 1]>>

\* s.lstrip('#')
RECURSIVE LStripHash(_)
LStripHash(s) == IF s # << >> /\ Head(s) = "#" THEN LStripHash(Tail(s)) ELSE s

\* s.startswith('#')
StartsWithHash(s) == s # << >> /\ Head(s) = "#"

\* "".join([c*2 for c in s])
RECURSIVE DoubleChars(_)
DoubleChars(s) == IF s = << >> THEN << >> ELSE <<Head(s), Head(s)>> \o DoubleChars(Tail(s))

\* int(s, 16) for a string s: ValueError when s is empty or holds a character
\* that is no hex digit
RECURSIVE HexNumber(_)
HexNumber(s) == IF s = << >> THEN 0 ELSE 16 * HexNumber(SubSeq(s, 1, Len(s) - 1)) + HexVal(s[Len(s)])

Int16(s) ==
    IF s # << >> /\ \A i \in 1..Len(s) : IsHexChar(s[i])
    THEN [exc |-> "", v |-> HexNumber(s)]
    ELSE [exc |-> "ValueError", v |-> 0]

\* s[i:i+2] of Python, i counted from 0
Slice2(s, i) == SubSeq(s, i + 1, Min2(i + 2, Len(s)))

\* (int(h[0:2], 16), int(h[2:4], 16), int(h[4:6], 16)) from the three conversions
RgbOf(r, g, b) ==
    IF r.exc # "" \/ g.exc # "" \/ b.exc # "" THEN [exc |-> "ValueError", v |-> << >>]
    ELSE [exc |-> "", v |-> <<r.v, g.v, b.v>>]

\* the three channels of the string h
ParseRgb(h) == RgbOf(Int16(Slice2(h, 0)), Int16(Slice2(h, 2)), Int16(Slice2(h, 4)))

\* "".join([c*2 for c in h]) if len(h) == 3
Expand3(h) == IF Len(h) = 3 THEN DoubleChars(h) ELSE h

(***************************************************************************)
(* Raster helpers (ComfyUI_PNGArtGridGeneratorNode.py).                    *)
(***************************************************************************)
\* hex_to_rgba after the lstrip and the doubling: h the string, rgb its channels
hex_rgba_of(h, rgb, alpha) ==
    IF Len(h) # 6 THEN [exc |-> "", v |-> <<0, 0, 0, alpha>>]
    ELSE IF rgb.exc # "" THEN rgb
    ELSE [exc |-> "", v |-> rgb.v \o <<alpha>>]

\* hex_to_rgba(hex_color, alpha): v = <<r, g, b, alpha>>
hex_to_rgba(e, alpha) ==
    IF ~e.str THEN [exc |-> "AttributeError", v |-> << >>]
    ELSE hex_rgba_of(Expand3(LStripHash(e.s)), ParseRgb(Expand3(LStripHash(e.s))), alpha)

\* an alpha that is reduced whatever the first draw is
AlphaUngated(g, chaos) ==
    [ev |-> <<Drw("get_random_alpha", "random", D(g, 1)),
              Drw("get_random_alpha", "randint", RandInt(D(g, 2), 150, 240))>>,
     g |-> AdvN(g, 2), v |-> RandInt(D(g, 2), 150, 240)]

\* get_random_alpha(chaos_factor)
get_random_alpha(g, chaos) ==
    IF Below(D(g, 1), chaos, 200)
    THEN [ev |-> <<Drw("get_random_alpha", "random", D(g, 1)),
                   Drw("get_random_alpha", "randint", RandInt(D(g, 2), 150, 240))>>,
          g |-> AdvN(g, 2), v |-> RandInt(D(g, 2), 150, 240)]
    ELSE [ev |-> <<Drw("get_random_alpha", "random", D(g, 1))>>, g |-> AdvN(g, 1), v |-> 255]

RotationAngles == <<0, 15, 30, 45, 60, 75, 90, -15, -30, -45, -60, -75>>

\* an angle chosen from the list whatever the probability
AngleUngated(g, p) ==
    [ev |-> <<Drw("get_random_rotation_angle", "random", D(g, 1)),
              Drw("get_random_rotation_angle", "choice", ChoiceIdx(D(g, 2), Len(RotationAngles)))>>,
     g |-> AdvN(g, 2), v |-> RotationAngles[ChoiceIdx(D(g, 2), Len(RotationAngles))]]

\* get_random_rotation_angle(p), p the probability in thousandths
get_random_rotation_angle(g, p) ==
    IF Below(D(g, 1), p, 1000)
    THEN [ev |-> <<Drw("get_random_rotation_angle", "random", D(g, 1)),
                   Drw("get_random_rotation_angle", "choice", ChoiceIdx(D(g, 2), Len(RotationAngles)))>>,
          g |-> AdvN(g, 2), v |-> RotationAngles[ChoiceIdx(D(g, 2), Len(RotationAngles))]]
    ELSE [ev |-> <<Drw("get_random_rotation_angle", "random", D(g, 1))>>, g |-> AdvN(g, 1), v |-> 0]

(***************************************************************************)
(* colorsys, in fixed point: a value x of [0, 1] is held as x * HlsScale,  *)
(* truncated; HlsScale is a multiple of 255 and of 10, so that c / 255 and *)
(* 0.1 are held exactly.  A colour is a triple.                            *)
(***************************************************************************)
HlsScale == 255 * 100

\* the hue of colorsys.rgb_to_hls for the channels c = <<r, g, b>>, maxc and
\* rangec = maxc - minc > 0
hls_hue(c, maxc, rangec) ==
    IF c[1] = maxc
    THEN ((maxc - c[3]) * HlsScale) \div rangec - ((maxc - c[2]) * HlsScale) \div rangec
    ELSE IF c[2] = maxc
    THEN 2 * HlsScale + ((maxc - c[1]) * HlsScale) \div rangec - ((maxc - c[3]) * HlsScale) \div rangec
    ELSE 4 * HlsScale + ((maxc - c[2]) * HlsScale) \div rangec - ((maxc - c[1]) * HlsScale) \div rangec

\* colorsys.rgb_to_hls, from maxc and minc on
hls_of(c, maxc, minc) ==
    IF minc = maxc THEN <<0, (maxc + minc) \div 2, 0>>
    ELSE <<(hls_hue(c, maxc, maxc - minc) \div 6) % HlsScale,
           (maxc + minc) \div 2,
           IF 2 * ((maxc + minc) \div 2) <= HlsScale
           THEN ((maxc - minc) * HlsScale) \div (maxc + minc)
           ELSE ((maxc - minc) * HlsScale) \div (2 * HlsScale - maxc - minc)>>

\* colorsys.rgb_to_hls(r, g, b) = <<h, l, s>>, c = <<r, g, b>>
rgb_to_hls(c) == hls_of(c, Max2(c[1], Max2(c[2], c[3])), Min2(c[1], Min2(c[2], c[3])))

\* colorsys._v(m1, m2, hue)
hls_v(m1, m2, hue) ==
    IF 6 * (hue % HlsScale) < HlsScale THEN m1 + ((m2 - m1) * (hue % HlsScale) * 6) \div HlsScale
    ELSE IF 2 * (hue % HlsScale) < HlsScale THEN m2
    ELSE IF 3 * (hue % HlsScale) < 2 * HlsScale
         THEN m1 + ((m2 - m1) * ((2 * HlsScale) \div 3 - (hue % HlsScale)) * 6) \div HlsScale
    ELSE m1

\* colorsys.hls_to_rgb, from m2 on
rgb_of(h, l, m2) ==
    <<hls_v(2 * l - m2, m2, h + HlsScale \div 3), hls_v(2 * l - m2, m2, h),
      hls_v(2 * l - m2, m2, h - HlsScale \div 3)>>

\* colorsys.hls_to_rgb(h, l, s) = <<r, g, b>>
hls_to_rgb(h, l, s) ==
    IF s = 0 THEN <<l, l, l>>
    ELSE rgb_of(h, l, IF 2 * l <= HlsScale THEN (l * (HlsScale + s)) \div HlsScale
                      ELSE l + s - (l * s) \div HlsScale)

\* <<r/255, g/255, b/255>> for the channels c, and <<int(r*255), int(g*255), int(b*255)>>
ToUnit(c) == <<(c[1] * HlsScale) \div 255, (c[2] * HlsScale) \div 255, (c[3] * HlsScale) \div 255>>

ToByte(c) == <<(c[1] * 255) \div HlsScale, (c[2] * 255) \div HlsScale, (c[3] * 255) \div HlsScale>>

\* the steps both create_background_colors share, from the two parsed colours on.
\* s = max(0, s - 0.1) and the desaturated colour, for hls = <<h, l, s>>
bg_desat(hls) == ToByte(hls_to_rgb(hls[1], hls[2], Max2(0, hls[3] - HlsScale \div 10)))

\* the lighter and the darker colour, for hls = <<h_l, l_l, s_l>>: <<inner, outer>>
bg_light_dark(hls) ==
    <<ToByte(hls_to_rgb(hls[1], Min2(HlsScale, hls[2] + HlsScale \div 10), hls[3])),
      ToByte(hls_to_rgb(hls[1], Max2(0, hls[2] - HlsScale \div 10), hls[3]))>>

\* <<inner, outer>> for the parsed colours c1 = <<r1, g1, b1>>, c2 = <<r2, g2, b2>>
MixBackground(c1, c2) ==
    bg_light_dark(rgb_to_hls(ToUnit(bg_desat(rgb_to_hls(ToUnit(
        <<(c1[1] + c2[1]) \div 2, (c1[2] + c2[2]) \div 2, (c1[3] + c2[3]) \div 2>>))))))

\* the return of pil_create_background_colors on its fallback path
pil_bg_fallback ==
    [fallback |-> TRUE, bg_inner |-> <<238, 238, 238, 255>>, bg_outer |-> <<221, 221, 221, 255>>]

\* its return for the mixed pair m = <<inner, outer>>
pil_bg_mixed(m) == [fallback |-> FALSE, bg_inner |-> m[1] \o <<255>>, bg_outer |-> m[2] \o <<255>>]

\* its return for the two parsed colours p1, p2
pil_bg_from(p1, p2) ==
    IF p1.exc # "" \/ p2.exc # "" THEN pil_bg_fallback ELSE pil_bg_mixed(MixBackground(p1.v, p2.v))

\* pil_create_background_colors(color_palette): [fallback, bg_inner, bg_outer]
pil_create_background_colors(palette) ==
    IF Len(palette) < 2 THEN pil_bg_fallback
    ELSE pil_bg_from(hex_to_rgba(palette[1], 255), hex_to_rgba(palette[2], 255))

\* the filter both get_two_colors apply:
\* isinstance(c, str) and c.startswith("#") and len(c.lstrip('#')) in [3,6]
IsValidEntry(e) == e.str /\ StartsWithHash(e.s) /\ Len(LStripHash(e.s)) \in {3, 6}

\* [c for c in valid if c != bg_hex]
Remaining(valid, bg_hex) == SelectSeqIdx(valid, LAMBDA c : c # bg_hex)

\* the end of pil_get_two_colors: al the return of get_random_alpha, g the state
\* after the choices, ev the events so far, bg and fg the two parsed colours
pil_two_colors_result(al, g, ev, bg_hex, fg_hex, bg, fg) ==
    [ev |-> ev, exc |-> IF bg.exc # "" THEN bg.exc ELSE fg.exc, g |-> g,
     foreground |-> fg.v, background |-> bg.v, fg_hex |-> fg_hex, bg_hex |-> bg_hex]

\* pil_get_two_colors from the choice of the foreground on
pil_two_colors_fg(al, g, valid, remaining, bi, bg) ==
    IF bg.exc # ""
    THEN [ev |-> al.ev \o <<Drw("pil_get_two_colors", "choice", bi)>>, exc |-> bg.exc, g |-> g,
          foreground |-> << >>, background |-> << >>, fg_hex |-> NonStr, bg_hex |-> valid[bi]]
    ELSE IF remaining = << >>
    THEN pil_two_colors_result(al, g, al.ev \o <<Drw("pil_get_two_colors", "choice", bi)>>,
                               valid[bi], valid[1], bg, hex_to_rgba(valid[1], al.v))
    ELSE pil_two_colors_result(al, AdvN(g, 1),
                               al.ev \o <<Drw("pil_get_two_colors", "choice", bi),
                                          Drw("pil_get_two_colors", "choice", ChoiceIdx(D(g, 1), Len(remaining)))>>,
                               valid[bi], remaining[ChoiceIdx(D(g, 1), Len(remaining))], bg,
                               hex_to_rgba(remaining[ChoiceIdx(D(g, 1), Len(remaining))], al.v))

\* pil_get_two_colors from the choice of the background on
pil_two_colors_bg(al, valid, bi) ==
    pil_two_colors_fg(al, AdvN(al.g, 1), valid, Remaining(valid, valid[bi]), bi, hex_to_rgba(valid[bi], 255))

\* pil_get_two_colors after get_random_alpha
pil_two_colors_valid(al, palette, valid) ==
    IF palette = << >> \/ valid = << >>
    THEN [ev |-> al.ev, exc |-> "", g |-> al.g, foreground |-> <<51, 51, 51, al.v>>,
          background |-> <<204, 204, 204, 255>>, fg_hex |-> NonStr, bg_hex |-> NonStr]
    ELSE pil_two_colors_bg(al, valid, ChoiceIdx(D(al.g, 1), Len(valid)))

\* pil_get_two_colors(color_palette, chaos_factor):
\* [ev, exc, g, foreground, background, fg_hex, bg_hex]
pil_get_two_colors(g, palette, chaos) ==
    pil_two_colors_valid(get_random_alpha(g, chaos), palette, SelectSeqIdx(palette, IsValidEntry))

(***************************************************************************)
(* Raster drawing: draw_rotated_image and the 12 style generators.         *)
(* Every generator returns [ev, g]: its events and the random state after  *)
(* it.  Coordinates of drawing operations are in thousandths of a pixel.   *)
(* A loop is given by its body (one iteration, from the state s before it) *)
(* and by the run of its iterations lo .. hi-1 in order.                   *)
(***************************************************************************)
P(n) == 1000 * n

\* (random.random() - 0.5) * k, for the raw value u (floor of the exact value)
Centered(u, k) == ((2 * u - RngModulus) * k) \div (2 * RngModulus)

\* |cos a| + |sin a| in ten-thousandths, for the angles of RotationAngles
CosPlusSin(angle) ==
    CASE Abs(angle) = 0 -> 10000 [] Abs(angle) = 15 -> 12247 [] Abs(angle) = 30 -> 13660
      [] Abs(angle) = 45 -> 14142 [] Abs(angle) = 60 -> 13660 [] Abs(angle) = 75 -> 12247
      [] Abs(angle) = 90 -> 10000

\* int(n / 2) for an int n: int() drops the fraction, towards zero
IntOfHalf(n) == IF n >= 0 THEN n \div 2 ELSE 0 - ((0 - n) \div 2)

\* the side of shape_image.rotate(angle, expand=True) for a square image of
\* side w: Pillow turns the corners around the centre and takes
\* ceil(max) - floor(min) of their coordinates
RotatedSide(w, angle) ==
    (10000 * w + w * CosPlusSin(angle) + 19999) \div 20000 - (10000 * w - w * CosPlusSin(angle)) \div 20000

\* a paste one pixel to the right of and below the place computed
PasteShifted(by, x, y, w, rw, angle) ==
    <<Op(by, "paste", <<IntOfHalf(2 * x + w - rw) + 1, IntOfHalf(2 * y + w - rw) + 1, rw, angle>>, << >>)>>

\* the paste of draw_rotated_image for the rotated image of side rw:
\* int(x + w/2 - rw/2), int(y + w/2 - rw/2)
paste_rotated(by, x, y, w, rw, angle) ==
    <<Op(by, "paste", <<IntOfHalf(2 * x + w - rw), IntOfHalf(2 * y + w - rw), rw, angle>>, << >>)>>

\* draw_rotated_image(target_image, shape_image, x, y, angle), shape_image a
\* square of side w: one paste, at <<paste_x, paste_y>> (pixels), of an image of side rw
draw_rotated_image(by, x, y, w, angle) ==
    IF angle = 0 THEN <<Op(by, "paste", <<x, y, w, 0>>, << >>)>>
    ELSE paste_rotated(by, x, y, w, RotatedSide(w, angle), angle)

\* the end of the three generators that rotate: the events so far, then the
\* angle's draws and the paste; rot the return of get_random_rotation_angle
rotate_and_paste(by, ev, rot, x, y, size) ==
    [ev |-> ev \o rot.ev \o draw_rotated_image(by, x, y, size, rot.v), g |-> rot.g]

\* a fill of the upper half of the square alone
HalfCellFill(by, x, y, size, bg) == Op(by, "rectangle", <<P(x), P(y), P(x + size), P(y) + 500 * size>>, bg)

\* draw.rectangle([x, y, x + square_size, y + square_size], fill=background_rgba)
CellFill(by, x, y, size, bg) == Op(by, "rectangle", <<P(x), P(y), P(x + size), P(y + size)>>, bg)

\* an ellipse of radii rx, ry (thousandths) around <<cx, cy>> (thousandths)
EllipseAt(by, cx, cy, rx, ry, col) == Op(by, "ellipse", <<cx - rx, cy - ry, cx + rx, cy + ry>>, col)

\* a circle of radius r around the centre of the cell
CenterCircle(by, x, y, size, r, col) == EllipseAt(by, P(x) + 500 * size, P(y) + 500 * size, r, r, col)

\* a circle style whose third circle is as large as its second
TinyAsLargeAsInner(g, x, y, size, fg, bg, chaos) ==
    LET by  == "draw_pil_circle"
        rf  == Uniform(D(g, 1), 800 - 2 * chaos, 1000)
        irf == Uniform(D(g, 3), 200, 500)
        ev1 == <<CellFill(by, x, y, size, bg), Drw(by, "uniform", rf),
                 CenterCircle(by, x, y, size, (size * rf) \div 2, fg), Drw(by, "random", D(g, 2))>>
        ev3 == <<Drw(by, "uniform", irf),
                 CenterCircle(by, x, y, size, (size * irf) \div 2, <<bg[1], bg[2], bg[3], fg[4]>>),
                 Drw(by, "random", D(g, 4))>>
    IN IF ~Below(D(g, 2), 300 + 3 * chaos, 1000) THEN [ev |-> ev1, g |-> AdvN(g, 2)]
       ELSE IF ~Below(D(g, 4), chaos, 200) THEN [ev |-> ev1 \o ev3, g |-> AdvN(g, 4)]
       ELSE [ev |-> ev1 \o ev3 \o <<CenterCircle(by, x, y, size, (size * irf) \div 2, fg)>>,
             g |-> AdvN(g, 4)]

draw_pil_circle(g, x, y, size, fg, bg, chaos) ==
    LET by  == "draw_pil_circle"
        rf  == Uniform(D(g, 1), 800 - 2 * chaos, 1000)
        irf == Uniform(D(g, 3), 200, 500)
        ev1 == <<CellFill(by, x, y, size, bg), Drw(by, "uniform", rf),
                 CenterCircle(by, x, y, size, (size * rf) \div 2, fg), Drw(by, "random", D(g, 2))>>
        ev3 == <<Drw(by, "uniform", irf),
                 CenterCircle(by, x, y, size, (size * irf) \div 2, <<bg[1], bg[2], bg[3], fg[4]>>),
                 Drw(by, "random", D(g, 4))>>
    IN IF ~Below(D(g, 2), 300 + 3 * chaos, 1000) THEN [ev |-> ev1, g |-> AdvN(g, 2)]
       ELSE IF ~Below(D(g, 4), chaos, 200) THEN [ev |-> ev1 \o ev3, g |-> AdvN(g, 4)]
       ELSE [ev |-> ev1 \o ev3 \o <<CenterCircle(by, x, y, size, ((size * irf) \div 2) \div 2, fg)>>,
             g |-> AdvN(g, 4)]

draw_pil_opposite_circles(g, x, y, size, fg, bg, chaos) ==
    LET by  == "draw_pil_opposite_circles"
        qf  == Uniform(D(g, 2), 800, 1200)
        q_ss == 250 * size
        q_radius == (q_ss * qf) \div 1000
    IN [ev |-> <<CellFill(by, x, y, size, bg), Drw(by, "uniform", Uniform(D(g, 1), 400, 600)),
                 Drw(by, "uniform", qf),
                 EllipseAt(by, P(x) + q_ss, P(y) + q_ss, q_radius, q_radius, fg),
                 EllipseAt(by, P(x) + 3 * q_ss, P(y) + 3 * q_ss, q_radius, q_radius, fg)>>,
        g |-> AdvN(g, 2)]

\* the two shapes of draw_pil_cross on the temporary image, for the thickness
pil_cross_shape(by, is_plus, size, thickness, fg) ==
    IF is_plus
    THEN <<Op(by, "tmp.rectangle", <<0, (size - thickness) \div 2, size, (size + thickness) \div 2>>, fg),
           Op(by, "tmp.rectangle", <<(size - thickness) \div 2, 0, (size + thickness) \div 2, size>>, fg)>>
    ELSE <<Op(by, "tmp.line", <<0, 0, size, size, Max2(1, (thickness * 8) \div 10)>>, fg),
           Op(by, "tmp.line", <<size, 0, 0, size, Max2(1, (thickness * 8) \div 10)>>, fg)>>

draw_pil_cross(g, x, y, size, fg, bg, chaos) ==
    LET by  == "draw_pil_cross"
        tf  == Uniform(D(g, 2), 250 - chaos, 400 + chaos)
    IN rotate_and_paste(by,
          <<CellFill(by, x, y, size, bg), Drw(by, "random", D(g, 1)), Drw(by, "uniform", tf)>>
          \o pil_cross_shape(by, Below(D(g, 1), 1, 2), size, (size * tf) \div 1000, fg),
          get_random_rotation_angle(AdvN(g, 2), 5 * chaos), x, y, size)

draw_pil_half_square(g, x, y, size, fg, bg, chaos) ==
    LET by  == "draw_pil_half_square"
        d   == ChoiceIdx(D(g, 1), 4)
        h   == 500 * size
        box == CASE d = 1 -> <<P(x), P(y), P(x + size), P(y) + h>>
                 [] d = 2 -> <<P(x) + h, P(y), P(x + size), P(y + size)>>
                 [] d = 3 -> <<P(x), P(y) + h, P(x + size), P(y + size)>>
                 [] OTHER -> <<P(x), P(y), P(x) + h, P(y + size)>>
    IN [ev |-> <<CellFill(by, x, y, size, bg), Drw(by, "choice", d), Op(by, "rectangle", box, fg)>>,
        g |-> AdvN(g, 1)]

\* the three corners both diagonal squares start from
diagonal_points(is_tl_br, x, y, size) ==
    IF is_tl_br THEN <<P(x), P(y), P(x + size), P(y + size), P(x), P(y + size)>>
    ELSE <<P(x + size), P(y), P(x + size), P(y + size), P(x), P(y)>>

\* points[idx_to_move] = (points[idx_to_move][0] + jitter_x, points[idx_to_move][1] + jitter_y)
move_point(points, idx, jitter_x, jitter_y) ==
    [points EXCEPT ![2 * idx + 1] = @ + jitter_x, ![2 * idx + 2] = @ + jitter_y]

draw_pil_diagonal_square(g, x, y, size, fg, bg, chaos) ==
    LET by  == "draw_pil_diagonal_square"
        points == diagonal_points(Below(D(g, 1), 1, 2), x, y, size)
        ev1 == <<CellFill(by, x, y, size, bg), Drw(by, "random", D(g, 1)), Drw(by, "random", D(g, 2))>>
    IN IF Below(D(g, 2), chaos, 200)
       THEN [ev |-> ev1 \o <<Drw(by, "randint", RandInt(D(g, 3), 0, 2)), Drw(by, "random", D(g, 4)),
                             Drw(by, "random", D(g, 5)),
                             Op(by, "polygon", move_point(points, RandInt(D(g, 3), 0, 2),
                                                          Centered(D(g, 4), size * chaos),
                                                          Centered(D(g, 5), size * chaos)), fg)>>,
             g |-> AdvN(g, 5)]
       ELSE [ev |-> ev1 \o <<Op(by, "polygon", points, fg)>>, g |-> AdvN(g, 2)]

draw_pil_quarter_circle(g, x, y, size, fg, bg, chaos) ==
    LET by  == "draw_pil_quarter_circle"
        c   == ChoiceIdx(D(g, 1), 4)
        start == CASE c = 1 -> 180 [] c = 2 -> 270 [] c = 3 -> 0 [] OTHER -> 90
    IN [ev |-> <<CellFill(by, x, y, size, bg), Drw(by, "choice", c),
                 Op(by, "pieslice", <<P(x), P(y), P(x + size), P(y + size), start, start + 90>>, fg)>>,
        g |-> AdvN(g, 1)]

\* the body of the loops of draw_pil_dots for i, j_inner (idx = i * n + j_inner),
\* n = rows_dots = cols_dots, cell_s in thousandths
pil_dots_body(c, g, idx) ==
    LET by  == "draw_pil_dots"
        uf  == Uniform(D(g, 2), 200, 400 + c.chaos)
        center_x == P(c.x) + ((2 * (idx \div c.n) + 1) * c.cell_s) \div 2
                    + Centered(D(g, 3), (c.cell_s * c.chaos) \div 500)
        center_y == P(c.y) + ((2 * (idx % c.n) + 1) * c.cell_s) \div 2
                    + Centered(D(g, 4), (c.cell_s * c.chaos) \div 500)
        dot_r == Max2(1000, (c.cell_s * uf) \div 2000)
    IN IF Below(D(g, 1), c.chaos, 500)
       THEN [ev |-> <<Drw(by, "random", D(g, 1))>>, g |-> AdvN(g, 1)]
       ELSE [ev |-> <<Drw(by, "random", D(g, 1)), Drw(by, "uniform", uf), Drw(by, "random", D(g, 3)),
                      Drw(by, "random", D(g, 4)), EllipseAt(by, center_x, center_y, dot_r, dot_r, c.fg)>>,
             g |-> AdvN(g, 4)]

RECURSIVE pil_dots_loop(_, _, _, _)
pil_dots_loop(c, s, lo, hi) ==
    IF hi <= lo THEN [ev |-> << >>, g |-> s.g]
    ELSE IF hi = lo + 1 THEN pil_dots_body(c, s.g, lo)
    ELSE LET left  == pil_dots_loop(c, s, lo, (lo + hi) \div 2)
             right == pil_dots_loop(c, left, (lo + hi) \div 2, hi)
         IN [ev |-> left.ev \o right.ev, g |-> right.g]

\* a generator's events before its loop, then the loop's
after_prefix(ev, loop) == [ev |-> ev \o loop.ev, g |-> loop.g]

\* int(random.choice(num_dots_choices) ** 0.5) for the index ci of the choice
num_dots_sqrt(ci, chaos) == CASE ci = 1 -> 2 [] ci = 2 -> 3 [] ci = 3 -> 4 [] OTHER -> IF chaos > 50 THEN 5 ELSE 4

\* draw_pil_dots once num_dots_sqrt = n is known
pil_dots_of(g, n, x, y, size, fg, bg, chaos) ==
    after_prefix(<<CellFill("draw_pil_dots", x, y, size, bg),
                   Drw("draw_pil_dots", "choice", ChoiceIdx(D(g, 1), 4))>>,
                 pil_dots_loop([n |-> n, cell_s |-> (1000 * size) \div n, x |-> x, y |-> y, fg |-> fg,
                                chaos |-> chaos], [g |-> AdvN(g, 1)], 0, n * n))

draw_pil_dots(g, x, y, size, fg, bg, chaos) ==
    pil_dots_of(g, num_dots_sqrt(ChoiceIdx(D(g, 1), 4), chaos), x, y, size, fg, bg, chaos)

\* the number of characters draw_pil_letter_block and draw_letter_block choose from
NumCharacters == 26 + 10 + 12

\* the font files draw_pil_letter_block asks for
FontFiles == {"cour.ttf", "arial.ttf"}

\* ImageFont.truetype(name, font_size): the font, or IOError when the file
\* cannot be loaded
truetype(name) ==
    IF name \in fonts THEN [exc |-> "", font |-> name, tried |-> <<name>>]
    ELSE [exc |-> "IOError", font |-> "", tried |-> <<name>>]

\* a second attempt whose IOError nothing catches
SecondFontOrRaise(first, second) ==
    IF first.exc = "" THEN first
    ELSE [exc |-> second.exc, font |-> second.font, tried |-> first.tried \o second.tried]

\* try: first / except IOError: try: second / except IOError: ImageFont.load_default()
pil_font_chain(first, second) ==
    IF first.exc = "" THEN first
    ELSE IF second.exc = "" THEN [exc |-> "", font |-> second.font, tried |-> first.tried \o second.tried]
    ELSE [exc |-> "", font |-> "load_default", tried |-> first.tried \o second.tried \o <<"load_default">>]

\* the font of draw_pil_letter_block
pil_letter_font == pil_font_chain(truetype("cour.ttf"), truetype("arial.ttf"))

\* draw_temp.text(..., font=font, ...): the primitive with the font it is given
TextWith(font) ==
    CASE font = "cour.ttf" -> "tmp.text cour.ttf"
      [] font = "arial.ttf" -> "tmp.text arial.ttf"
      [] font = "load_default" -> "tmp.text load_default"

\* draw_pil_letter_block once the font is loaded: ev the events so far
pil_letter_block_with(by, f, ev, ch, font_size, g, x, y, size, fg, chaos) ==
    LET r == rotate_and_paste(by, ev \o <<Op(by, TextWith(f.font), <<500 * size, 500 * size, ch, font_size>>, fg)>>,
                              get_random_rotation_angle(g, 8 * chaos), x, y, size)
    IN [ev |-> r.ev, g |-> r.g, exc |-> "", tried |-> f.tried]

\* draw_pil_letter_block from the loading of the font on
pil_letter_block_font(by, f, ev, ch, font_size, g, x, y, size, fg, chaos) ==
    IF f.exc # "" THEN [ev |-> ev, g |-> g, exc |-> f.exc, tried |-> f.tried]
    ELSE pil_letter_block_with(by, f, ev, ch, font_size, g, x, y, size, fg, chaos)

draw_pil_letter_block(g, x, y, size, fg, bg, chaos) ==
    pil_letter_block_font("draw_pil_letter_block", pil_letter_font,
        <<CellFill("draw_pil_letter_block", x, y, size, bg),
          Drw("draw_pil_letter_block", "choice", ChoiceIdx(D(g, 1), NumCharacters)),
          Drw("draw_pil_letter_block", "uniform", Uniform(D(g, 2), 600 - chaos, 900 + chaos))>>,
        ChoiceIdx(D(g, 1), NumCharacters),
        Max2(10, (size * Uniform(D(g, 2), 600 - chaos, 900 + chaos)) \div 1000),
        AdvN(g, 2), x, y, size, fg, chaos)

\* a colour with its alpha lowered to at most alpha: min(current_alpha, chaotic_alpha)
WithAlpha(base, alpha) == <<base[1], base[2], base[3], Min2(base[4], alpha)>>

\* one circle of draw_pil_concentric_circles: al the return of get_random_alpha
pil_concentric_circle(c, s, radius, al) ==
    LET by == "draw_pil_concentric_circles"
    IN [ev |-> al.ev \o <<Drw(by, "random", D(al.g, 1)), Drw(by, "random", D(al.g, 2)),
                          EllipseAt(by, P(c.x) + 500 * c.size + Centered(D(al.g, 1), (c.size * c.chaos) \div 2),
                                    P(c.y) + 500 * c.size + Centered(D(al.g, 2), (c.size * c.chaos) \div 2),
                                    radius, radius, WithAlpha(IF s.is_fg THEN c.fg ELSE c.bg, al.v))>>,
        g |-> AdvN(al.g, 2), is_fg |-> ~s.is_fg]

\* the body of the loop of draw_pil_concentric_circles for i = num_circles - k
pil_concentric_body(c, s, k) ==
    IF (c.max_r * (c.num - k)) \div c.num < 1000 THEN [ev |-> << >>, g |-> s.g, is_fg |-> s.is_fg]
    ELSE pil_concentric_circle(c, s, (c.max_r * (c.num - k)) \div c.num, get_random_alpha(s.g, c.chaos))

RECURSIVE pil_concentric_loop(_, _, _, _)
pil_concentric_loop(c, s, lo, hi) ==
    IF hi <= lo THEN [ev |-> << >>, g |-> s.g, is_fg |-> s.is_fg]
    ELSE IF hi = lo + 1 THEN pil_concentric_body(c, s, lo)
    ELSE LET left  == pil_concentric_loop(c, s, lo, (lo + hi) \div 2)
             right == pil_concentric_loop(c, left, (lo + hi) \div 2, hi)
         IN [ev |-> left.ev \o right.ev, g |-> right.g, is_fg |-> right.is_fg]

\* random.randint(lo + int(chaos_factor*a), hi + int(chaos_factor*b))
CountDraw(u, lo, a, hi, b, chaos) == RandInt(u, lo + (a * chaos) \div 100, hi + (b * chaos) \div 100)

\* draw_pil_concentric_circles once num_circles and the factor of max_r are known
pil_concentric_of(g, num_circles, mf, x, y, size, fg, bg, chaos) ==
    after_prefix(<<CellFill("draw_pil_concentric_circles", x, y, size, bg),
                   Drw("draw_pil_concentric_circles", "randint", num_circles),
                   Drw("draw_pil_concentric_circles", "uniform", mf)>>,
                 pil_concentric_loop([num |-> num_circles, max_r |-> (size * mf) \div 2, x |-> x, y |-> y,
                                      size |-> size, fg |-> fg, bg |-> bg, chaos |-> chaos],
                                     [g |-> AdvN(g, 2), is_fg |-> TRUE], 0, num_circles))

draw_pil_concentric_circles(g, x, y, size, fg, bg, chaos) ==
    pil_concentric_of(g, CountDraw(D(g, 1), 2, 2, 5, 3, chaos), Uniform(D(g, 2), 850, 1000),
                      x, y, size, fg, bg, chaos)

\* the rectangle of the stripe i of draw_pil_stripes, uf the factor of its thickness
pil_stripe_rect(c, i, uf, stripe_color) ==
    LET stripe_thickness == Max2(1, (c.size * uf) \div (1000 * c.num))
        pos == (i * c.size) \div c.num
    IN <<Drw("draw_pil_stripes", "uniform", uf),
         Op("draw_pil_stripes", "rectangle",
            IF c.is_horizontal
            THEN <<P(c.x), P(c.y + pos), P(c.x + c.size), P(c.y + pos + stripe_thickness)>>
            ELSE <<P(c.x + pos), P(c.y), P(c.x + pos + stripe_thickness), P(c.y + c.size)>>, stripe_color)>>

\* the stripe i from the test of its colour on: ev the events of the iteration
\* so far, g the state after them.
\* if stripe_color == background_rgba and random.random() < chaos_factor * 0.6: continue
pil_stripe_drawn(c, i, ev, stripe_color, g) ==
    IF stripe_color # c.bg
    THEN [ev |-> ev \o pil_stripe_rect(c, i, Uniform(D(g, 1), 700 - 2 * c.chaos, 1300 + 2 * c.chaos), stripe_color),
          g |-> AdvN(g, 1)]
    ELSE IF Below(D(g, 1), 6 * c.chaos, 1000)
    THEN [ev |-> ev \o <<Drw("draw_pil_stripes", "random", D(g, 1))>>, g |-> AdvN(g, 1)]
    ELSE [ev |-> ev \o <<Drw("draw_pil_stripes", "random", D(g, 1))>>
                 \o pil_stripe_rect(c, i, Uniform(D(g, 2), 700 - 2 * c.chaos, 1300 + 2 * c.chaos), stripe_color),
          g |-> AdvN(g, 2)]

\* the stripe i from get_random_alpha on: al its return
pil_stripe_alpha(c, i, ev, base_stripe_color, al) ==
    pil_stripe_drawn(c, i, ev \o al.ev, WithAlpha(base_stripe_color, al.v), al.g)

\* the body of the loop of draw_pil_stripes:
\* foreground if (i % 2 == 0 or random.random() < chaos_factor * 0.3) else background
pil_stripes_body(c, g, i) ==
    IF i % 2 = 0 THEN pil_stripe_alpha(c, i, << >>, c.fg, get_random_alpha(g, c.chaos))
    ELSE pil_stripe_alpha(c, i, <<Drw("draw_pil_stripes", "random", D(g, 1))>>,
                          IF Below(D(g, 1), 3 * c.chaos, 1000) THEN c.fg ELSE c.bg,
                          get_random_alpha(AdvN(g, 1), c.chaos))

RECURSIVE pil_stripes_loop(_, _, _, _)
pil_stripes_loop(c, s, lo, hi) ==
    IF hi <= lo THEN [ev |-> << >>, g |-> s.g]
    ELSE IF hi = lo + 1 THEN pil_stripes_body(c, s.g, lo)
    ELSE LET left  == pil_stripes_loop(c, s, lo, (lo + hi) \div 2)
             right == pil_stripes_loop(c, left, (lo + hi) \div 2, hi)
         IN [ev |-> left.ev \o right.ev, g |-> right.g]

\* draw_pil_stripes once num_stripes and the index hi of the direction are known
pil_stripes_of(g, num_stripes, hi, x, y, size, fg, bg, chaos) ==
    after_prefix(<<CellFill("draw_pil_stripes", x, y, size, bg),
                   Drw("draw_pil_stripes", "randint", num_stripes),
                   Drw("draw_pil_stripes", "choice", hi)>>,
                 pil_stripes_loop([num |-> num_stripes, is_horizontal |-> hi = 1, x |-> x, y |-> y,
                                   size |-> size, fg |-> fg, bg |-> bg, chaos |-> chaos],
                                  [g |-> AdvN(g, 2)], 0, num_stripes))

draw_pil_stripes(g, x, y, size, fg, bg, chaos) ==
    pil_stripes_of(g, CountDraw(D(g, 1), 3, 2, 7, 4, chaos), ChoiceIdx(D(g, 2), 2), x, y, size, fg, bg, chaos)

\* max(1, min(inner_size * f, square_size * 0.9)), inner_size in millionths
ClampSide(inner_size, f, size) == Max2(1000, Min2((inner_size * f) \div 1000, 900 * size))

\* the shape draw_pil_rotated_shape draws on the temporary image: f1, f2 the two
\* factors drawn, c the centre
pil_rotated_shape_op(by, shape_type, inner_size, f1, f2, size, fg) ==
    IF shape_type = 1
    THEN Op(by, "tmp.rectangle",
            <<500 * size - ClampSide(inner_size, f1, size) \div 2, 500 * size - ClampSide(inner_size, f2, size) \div 2,
              500 * size + ClampSide(inner_size, f1, size) \div 2, 500 * size + ClampSide(inner_size, f2, size) \div 2>>,
            fg)
    ELSE Op(by, "tmp.ellipse",
            <<500 * size - Max2(1000, (inner_size * f1) \div 2000), 500 * size - Max2(1000, (inner_size * f2) \div 2000),
              500 * size + Max2(1000, (inner_size * f1) \div 2000), 500 * size + Max2(1000, (inner_size * f2) \div 2000)>>,
            fg)

\* the upper end of the two factors: 1.3 for 'rect' and 'ellipse', 1.0 for 'circle'
FactorTop(shape_type) == IF shape_type = 2 THEN 1000 ELSE 1300

draw_pil_rotated_shape(g, x, y, size, fg, bg, chaos) ==
    LET by  == "draw_pil_rotated_shape"
        shape_type == ChoiceIdx(D(g, 1), 3)
        isf == Uniform(D(g, 2), 500 - chaos, 800 + chaos)
        f1  == Uniform(D(g, 3), 700, FactorTop(shape_type))
        f2  == Uniform(D(g, 4), 700, FactorTop(shape_type))
    IN rotate_and_paste(by,
          <<CellFill(by, x, y, size, bg), Drw(by, "choice", shape_type), Drw(by, "uniform", isf),
            Drw(by, "uniform", f1), Drw(by, "uniform", f2),
            pil_rotated_shape_op(by, shape_type, size * isf, f1, f2, size, fg)>>,
          get_random_rotation_angle(AdvN(g, 4), 15 * chaos), x, y, size)

\* the draws of the points of one wavy line, three for each j_seg of
\* range(num_segments + 1), the first of them the draw number first of g
pil_wavy_points(g, first, num_segments) ==
    [j \in 1..(3 * (num_segments + 1)) |-> Drw("draw_pil_wavy_lines", "random", D(g, first + j - 1))]

\* one line of draw_pil_wavy_lines once num_segments is known
pil_wavy_line(c, g, i, num_segments) ==
    LET by == "draw_pil_wavy_lines"
    IN [ev |-> <<Drw(by, "uniform", Uniform(D(g, 1), 50, 200 + c.chaos)),
                 Drw(by, "uniform", Uniform(D(g, 2), 500, 2000 + 10 * c.chaos)),
                 Drw(by, "randint", num_segments)>>
               \o pil_wavy_points(g, 4, num_segments)
               \o <<Op(by, "line",
                       <<(IF c.is_horizontal THEN P(c.y) ELSE P(c.x)) + (1000 * c.size * (i + 1)) \div (c.num + 1),
                         num_segments + 1, c.stroke_w>>, c.fg)>>,
        g |-> AdvN(g, 3 + 3 * (num_segments + 1))]

\* the body of the loop of draw_pil_wavy_lines
pil_wavy_body(c, g, i) == pil_wavy_line(c, g, i, RandInt(D(g, 3), 10, 20))

RECURSIVE pil_wavy_loop(_, _, _, _)
pil_wavy_loop(c, s, lo, hi) ==
    IF hi <= lo THEN [ev |-> << >>, g |-> s.g]
    ELSE IF hi = lo + 1 THEN pil_wavy_body(c, s.g, lo)
    ELSE LET left  == pil_wavy_loop(c, s, lo, (lo + hi) \div 2)
             right == pil_wavy_loop(c, left, (lo + hi) \div 2, hi)
         IN [ev |-> left.ev \o right.ev, g |-> right.g]

\* draw_pil_wavy_lines once num_lines, the index hi of the direction and the
\* factor swf of the stroke are known
pil_wavy_of(g, num_lines, hi, swf, x, y, size, fg, bg, chaos) ==
    after_prefix(<<CellFill("draw_pil_wavy_lines", x, y, size, bg),
                   Drw("draw_pil_wavy_lines", "randint", num_lines),
                   Drw("draw_pil_wavy_lines", "choice", hi),
                   Drw("draw_pil_wavy_lines", "uniform", swf)>>,
                 pil_wavy_loop([num |-> num_lines, is_horizontal |-> hi = 1,
                                stroke_w |-> Max2(1, (size * swf) \div 1000), x |-> x, y |-> y,
                                size |-> size, fg |-> fg, chaos |-> chaos],
                               [g |-> AdvN(g, 3)], 0, num_lines))

draw_pil_wavy_lines(g, x, y, size, fg, bg, chaos) ==
    pil_wavy_of(g, CountDraw(D(g, 1), 2, 2, 5, 3, chaos), ChoiceIdx(D(g, 2), 2),
                Uniform(D(g, 3), 20, 50 + chaos \div 2), x, y, size, fg, bg, chaos)

(***************************************************************************)
(* The raster Palette Store and the raster generator.                      *)
(***************************************************************************)
H6(a, b, c, d, e, f) == Str(<<"#", a, b, c, d, e, f>>)

\* the four static palettes both files start from
StaticPalettes ==
    << <<H6("F","F","6","B","6","B"), H6("F","F","D","1","6","6"), H6("0","6","D","6","A","0"),
         H6("1","1","8","A","B","2"), H6("0","7","3","B","4","C")>>,
       <<H6("F","A","D","0","2","C"), H6("F","2","A","1","0","4"), H6("E","8","7","0","0","7"),
         H6("D","5","3","9","0","3"), H6("A","0","1","F","0","2")>>,
       <<H6("2","2","2","2","3","B"), H6("4","A","4","E","6","9"), H6("9","A","8","C","9","8"),
         H6("C","9","A","D","A","7"), H6("F","2","E","9","E","4")>>,
       <<H6("0","0","3","0","4","9"), H6("D","6","2","8","2","8"), H6("F","7","7","F","0","0"),
         H6("F","C","B","F","4","9"), H6("E","A","E","2","B","7")>> >>

\* f"#{r:02X}{g:02X}{b:02X}"
FmtColorUpper(r, g, b) == Str(<<"#">> \o Fmt02X(r) \o Fmt02X(g) \o Fmt02X(b))

\* palettes whose second and third colours are the base colour's channels
\* turned round without the shift by 128
TriadsWithoutShift ==
    [k \in 1..64 |->
        LET r == 64 * ((k - 1) \div 16)
            g == 64 * (((k - 1) \div 4) % 4)
            b == 64 * ((k - 1) % 4)
        IN <<FmtColorUpper(r, g, b), FmtColorUpper(g, b, r), FmtColorUpper(b, r, g)>>]

\* generate_triadic_palettes(): r, g, b over range(0, 256, 64), r outermost
generate_triadic_palettes ==
    [k \in 1..64 |->
        LET r == 64 * ((k - 1) \div 16)
            g == 64 * (((k - 1) \div 4) % 4)
            b == 64 * ((k - 1) % 4)
        IN <<FmtColorUpper(r, g, b),
             FmtColorUpper((g + 128) % 256, (b + 128) % 256, (r + 128) % 256),
             FmtColorUpper((b + 128) % 256, (r + 128) % 256, (g + 128) % 256)>>]

\* DEFAULT_PALETTES_DATA of the raster file, after the extend
PIL_DEFAULT_PALETTES_DATA == StaticPalettes \o generate_triadic_palettes

ALL_POSSIBLE_STYLE_NAMES ==
    <<"circle", "opposite_circles", "cross", "half_square", "diagonal_square", "quarter_circle",
      "dots", "letter_block", "concentric_circles", "stripes", "rotated_shape", "wavy_lines">>

InSeq(x, s) == \E i \in 1..Len(s) : s[i] = x

\* style_function_map_pil[name](main_draw, x, y, size, fg, bg, chaos_factor)
CallPilStyle(name, g, x, y, size, fg, bg, chaos) ==
    CASE name = "circle"             -> draw_pil_circle(g, x, y, size, fg, bg, chaos)
      [] name = "opposite_circles"   -> draw_pil_opposite_circles(g, x, y, size, fg, bg, chaos)
      [] name = "cross"              -> draw_pil_cross(g, x, y, size, fg, bg, chaos)
      [] name = "half_square"        -> draw_pil_half_square(g, x, y, size, fg, bg, chaos)
      [] name = "diagonal_square"    -> draw_pil_diagonal_square(g, x, y, size, fg, bg, chaos)
      [] name = "quarter_circle"     -> draw_pil_quarter_circle(g, x, y, size, fg, bg, chaos)
      [] name = "dots"               -> draw_pil_dots(g, x, y, size, fg, bg, chaos)
      [] name = "letter_block"       -> draw_pil_letter_block(g, x, y, size, fg, bg, chaos)
      [] name = "concentric_circles" -> draw_pil_concentric_circles(g, x, y, size, fg, bg, chaos)
      [] name = "stripes"            -> draw_pil_stripes(g, x, y, size, fg, bg, chaos)
      [] name = "rotated_shape"      -> draw_pil_rotated_shape(g, x, y, size, fg, bg, chaos)
      [] name = "wavy_lines"         -> draw_pil_wavy_lines(g, x, y, size, fg, bg, chaos)

\* a seeding that never touches the random module, whatever the seed: what
\* generate_art_image_pil would do without its calls of random.seed
SeedIgnored(seed, g, e) == [exc |-> "", g |-> g, mode |-> "seeded"]

\* the seeding of generate_art_image_pil: [exc, g, mode].  A seed is [kind, v]:
\* "none" is None, "int" the int v, "digits" a str of digits whose value is v,
\* "empty" the str '', "text" another str
pil_seed(seed, g, e) ==
    IF seed.kind = "none" THEN [exc |-> "", g |-> EntropyState(e), mode |-> "entropy"]
    ELSE IF seed.kind # "int" THEN [exc |-> "TypeError", g |-> g, mode |-> "unchanged"]
    ELSE IF seed.v < 0 THEN [exc |-> "", g |-> EntropyState(e), mode |-> "entropy"]
    ELSE [exc |-> "", g |-> SeedState(seed.v), mode |-> "seeded"]

\* the palette index generate_art_image_pil uses
pil_palette_index(palette_index) ==
    IF ~(0 <= palette_index /\ palette_index < Len(PIL_DEFAULT_PALETTES_DATA)) THEN 0 ELSE palette_index

\* block_styles_str is held as the list block_styles_str.split(',') of its items,
\* each [pad, name]: name is the item stripped, pad whether it had blanks around it;
\* None is the empty list.  block_styles_str and block_styles_str.strip():
StylesStrTruthy(str) == str # << >> /\ ~(Len(str) = 1 /\ str[1].name = "")

\* [name.strip() for name in block_styles_str.split(',') if name.strip() in ALL_POSSIBLE_STYLE_NAMES]
pil_known_names(str) ==
    IF StylesStrTruthy(str)
    THEN SelectSeqIdx([i \in 1..Len(str) |-> str[i].name], LAMBDA n : InSeq(n, ALL_POSSIBLE_STYLE_NAMES))
    ELSE << >>

\* if not block_style_names_list: block_style_names_list = ALL_POSSIBLE_STYLE_NAMES
AllIfEmpty(names, all) == IF names = << >> THEN all ELSE names

\* a fallback to the first style alone instead of the whole enumeration
FirstStyleIfEmpty(str) == AllIfEmpty(pil_known_names(str), <<ALL_POSSIBLE_STYLE_NAMES[1]>>)

\* the names generate_art_image_pil keeps of block_styles_str
pil_block_style_names(str) == AllIfEmpty(pil_known_names(str), ALL_POSSIBLE_STYLE_NAMES)

\* the two rectangles of the background, for the inset
pil_background_of(bg_colors, img_width, img_height, inset) ==
    LET by == "generate_art_image_pil"
    IN Tag(<<Op(by, "rectangle", <<0, 0, P(img_width), P(img_height)>>, bg_colors.bg_outer)>>
           \o (IF img_width > 2 * inset /\ img_height > 2 * inset
               THEN <<Op(by, "rectangle", <<P(inset), P(inset), P(img_width - inset), P(img_height - inset)>>,
                         bg_colors.bg_inner)>>
               ELSE << >>), "background", << >>)

\* a background whose inset is 10 pixels whatever the canvas
BackgroundInsetTen(palette, img_width, img_height) ==
    pil_background_of(pil_create_background_colors(palette), img_width, img_height, 10)

\* the background of generate_art_image_pil
pil_background(palette, img_width, img_height) ==
    pil_background_of(pil_create_background_colors(palette), img_width, img_height,
                      Max2(10, Min2(img_width, img_height) \div 10))

\* the cell <<r_idx, c_idx>> of the iteration number idx were the loops nested
\* the other way round (columns outer, rows inner)
ColumnMajorCellOf(idx, num_rows, num_cols) == <<idx % num_rows, idx \div num_rows>>

\* for r_idx in range(num_rows): for c_idx in range(num_cols): the cell
\* <<r_idx, c_idx>> of the iteration number idx (from 0)
pil_cell_of(idx, num_rows, num_cols) == <<idx \div num_cols, idx % num_cols>>

\* the exception a style generator left with, "" when it returned: of the
\* style generators only draw_pil_letter_block has calls that can raise
StyleExc(shape) == IF "exc" \in DOMAIN shape THEN shape.exc ELSE ""

\* the events of one block: the colours, the choice of the style, the shape
block_events(colors, si, shape, by, ph_colors, ph_style, ph_shape, id) ==
    Tag(colors.ev, ph_colors, id) \o Tag(<<Drw(by, "choice", si)>>, ph_style, id) \o Tag(shape.ev, ph_shape, id)

\* one cell once its style is chosen
pil_cell_styled(c, cell, colors, si, shape) ==
    [ev |-> block_events(colors, si, shape, "generate_art_image_pil", "colors", "style", "shape", cell),
     exc |-> StyleExc(shape), g |-> shape.g]

\* a cell whose style is called with the row in the place of x and the column
\* in the place of y
CellAtSwappedOrigin(c, cell, colors, si) ==
    IF colors.exc # "" THEN [ev |-> Tag(colors.ev, "colors", cell), exc |-> colors.exc, g |-> colors.g]
    ELSE pil_cell_styled(c, cell, colors, si,
                         CallPilStyle(c.active[si], AdvN(colors.g, 1), cell[1] * c.size, cell[2] * c.size,
                                      c.size, colors.foreground, colors.background, c.chaos))

\* one cell once its colours are chosen
pil_cell_colored(c, cell, colors, si) ==
    IF colors.exc # "" THEN [ev |-> Tag(colors.ev, "colors", cell), exc |-> colors.exc, g |-> colors.g]
    ELSE pil_cell_styled(c, cell, colors, si,
                         CallPilStyle(c.active[si], AdvN(colors.g, 1), cell[2] * c.size, cell[1] * c.size,
                                      c.size, colors.foreground, colors.background, c.chaos))

\* draw_func = random.choice(active_style_funcs), after the colours
pil_cell_colors(c, cell, colors) ==
    pil_cell_colored(c, cell, colors, ChoiceIdx(D(colors.g, 1), Len(c.active)))

\* the body of the loop of generate_art_image_pil over r_idx, c_idx; nothing
\* runs once an exception has left the function
pil_cells_body(c, s, idx) ==
    IF s.exc # "" THEN [ev |-> << >>, exc |-> s.exc, g |-> s.g]
    ELSE pil_cell_colors(c, pil_cell_of(idx, c.num_rows, c.num_cols),
                         pil_get_two_colors(s.g, c.palette, c.chaos))

RECURSIVE pil_cells_loop(_, _, _, _)
pil_cells_loop(c, s, lo, hi) ==
    IF hi <= lo THEN [ev |-> << >>, exc |-> s.exc, g |-> s.g]
    ELSE IF hi = lo + 1 THEN pil_cells_body(c, s, lo)
    ELSE LET left  == pil_cells_loop(c, s, lo, (lo + hi) \div 2)
             right == pil_cells_loop(c, left, (lo + hi) \div 2, hi)
         IN [ev |-> left.ev \o right.ev, exc |-> right.exc, g |-> right.g]

\* the test of the fit with "or" in the place of "and"
FitsOneSide(num_rows, num_cols, multiplier) == num_rows >= multiplier \/ num_cols >= multiplier

\* num_rows >= multiplier and num_cols >= multiplier
pil_big_block_fits(num_rows, num_cols, multiplier) == num_rows >= multiplier /\ num_cols >= multiplier

\* an offset drawn over the whole side: random.randint(0, n - 1)
OffsetOverSide(u, n, multiplier) == RandInt(u, 0, n - 1)

\* random.randint(0, n - multiplier), n = num_cols or num_rows
pil_big_block_offset(u, n, multiplier) == RandInt(u, 0, n - multiplier)

\* one big block once its style is chosen
pil_big_block_styled(c, s, k, block, colors, si, shape) ==
    [ev |-> Tag(<<Drw("generate_art_image_pil", "randint", block.col),
                  Drw("generate_art_image_pil", "randint", block.row)>>, "bb_offset", <<k>>)
            \o block_events(colors, si, shape, "generate_art_image_pil", "bb_colors", "bb_style", "bb_shape", <<k>>),
     exc |-> StyleExc(shape), g |-> shape.g, diag |-> s.diag,
     blocks |-> IF StyleExc(shape) = "" THEN Append(s.blocks, block) ELSE s.blocks]

\* one big block once its colours are chosen
pil_big_block_colored(c, s, k, block, colors, si) ==
    IF colors.exc # ""
    THEN [ev |-> Tag(<<Drw("generate_art_image_pil", "randint", block.col),
                       Drw("generate_art_image_pil", "randint", block.row)>>, "bb_offset", <<k>>)
                 \o Tag(colors.ev, "bb_colors", <<k>>),
          exc |-> colors.exc, g |-> colors.g, diag |-> s.diag, blocks |-> s.blocks]
    ELSE pil_big_block_styled(c, s, k, block, colors, si,
                              CallPilStyle(c.active[si], AdvN(colors.g, 1), block.x, block.y, block.size,
                                           colors.foreground, colors.background, c.chaos))

\* one big block once its place is drawn
pil_big_block_at(c, s, k, block, colors) ==
    pil_big_block_colored(c, s, k, block, colors, ChoiceIdx(D(colors.g, 1), Len(c.active)))

\* the place of a big block: its column and row, its corner and its side
BigBlock(bb_col_idx, bb_row_idx, square_size, multiplier) ==
    [col |-> bb_col_idx, row |-> bb_row_idx, x |-> bb_col_idx * square_size, y |-> bb_row_idx * square_size,
     size |-> multiplier * square_size]

\* the body of the loop of generate_art_image_pil over the big blocks, k from 1:
\* diag counts the messages printed, blocks lists the blocks drawn
pil_big_blocks_body(c, s, k) ==
    IF s.exc # "" THEN [ev |-> << >>, exc |-> s.exc, g |-> s.g, diag |-> s.diag, blocks |-> s.blocks]
    ELSE IF ~pil_big_block_fits(c.num_rows, c.num_cols, c.multiplier)
    THEN [ev |-> << >>, exc |-> "", g |-> s.g, diag |-> s.diag + 1, blocks |-> s.blocks]
    ELSE pil_big_block_at(c, s, k,
                          BigBlock(pil_big_block_offset(D(s.g, 1), c.num_cols, c.multiplier),
                                   pil_big_block_offset(D(s.g, 2), c.num_rows, c.multiplier),
                                   c.size, c.multiplier),
                          pil_get_two_colors(AdvN(s.g, 2), c.palette, c.chaos))

RECURSIVE pil_big_blocks_loop(_, _, _, _)
pil_big_blocks_loop(c, s, lo, hi) ==
    IF hi <= lo THEN [ev |-> << >>, exc |-> s.exc, g |-> s.g, diag |-> s.diag, blocks |-> s.blocks]
    ELSE IF hi = lo + 1 THEN pil_big_blocks_body(c, s, lo)
    ELSE LET left  == pil_big_blocks_loop(c, s, lo, (lo + hi) \div 2)
             right == pil_big_blocks_loop(c, left, (lo + hi) \div 2, hi)
         IN [ev |-> left.ev \o right.ev, exc |-> right.exc, g |-> right.g, diag |-> right.diag,
             blocks |-> right.blocks]

\* a result of a generation call that has drawn nothing
NoRun(status, exc, mode, g) ==
    [ev |-> << >>, status |-> status, exc |-> exc, mode |-> mode, g |-> g, diag |-> 0, blocks |-> << >>,
     palette |-> 0, active |-> << >>, width |-> 0, height |-> 0]

\* a return whose big blocks were drawn under the grid: the loop of the big
\* blocks placed before the loop of the cells
BigBlocksFirst(sd, c, bg, cells, big) ==
    [ev |-> bg \o big.ev \o cells.ev, status |-> IF big.exc = "" THEN "ok" ELSE "raised", exc |-> big.exc,
     mode |-> sd.mode, g |-> big.g, diag |-> big.diag, blocks |-> big.blocks, palette |-> c.palette_index,
     active |-> c.active, width |-> c.num_cols * c.size, height |-> c.num_rows * c.size]

\* the return of generate_art_image_pil: sd the seeding, c the settings of the
\* loops, bg the background's events, cells and big the returns of the two loops
pil_result(sd, c, bg, cells, big) ==
    [ev |-> bg \o cells.ev \o big.ev, status |-> IF big.exc = "" THEN "ok" ELSE "raised", exc |-> big.exc,
     mode |-> sd.mode, g |-> big.g, diag |-> big.diag, blocks |-> big.blocks, palette |-> c.palette_index,
     active |-> c.active, width |-> c.num_cols * c.size, height |-> c.num_rows * c.size]

\* generate_art_image_pil from "if big_block_enabled:" on
pil_after_cells(sd, c, cells) ==
    pil_result(sd, c, pil_background(c.palette, c.num_cols * c.size, c.num_rows * c.size), cells,
               IF c.big_block_enabled
               THEN pil_big_blocks_loop(c, [exc |-> cells.exc, g |-> cells.g, diag |-> 0, blocks |-> << >>],
                                        1, c.num_big_blocks + 1)
               ELSE [ev |-> << >>, exc |-> cells.exc, g |-> cells.g, diag |-> 0, blocks |-> << >>])

\* a generation that, with big blocks enabled, takes one draw from the random
\* module before its grid
DrawBeforeGridIfEnabled(sd, c) ==
    IF sd.exc # "" THEN NoRun("raised", sd.exc, sd.mode, sd.g)
    ELSE pil_after_cells(sd, c, pil_cells_loop(c, [exc |-> "", g |-> IF c.big_block_enabled THEN AdvN(sd.g, 1) ELSE sd.g],
                                               0, c.num_rows * c.num_cols))

\* generate_art_image_pil after the seeding and the choice of the palette and
\* of the styles
pil_after_setup(sd, c) ==
    IF sd.exc # "" THEN NoRun("raised", sd.exc, sd.mode, sd.g)
    ELSE pil_after_cells(sd, c, pil_cells_loop(c, [exc |-> "", g |-> sd.g], 0, c.num_rows * c.num_cols))

\* the settings the loops of generate_art_image_pil read
pil_settings(p, palette_index, active) ==
    [num_rows |-> p.num_rows, num_cols |-> p.num_cols, size |-> p.square_size, chaos |-> p.chaos_factor,
     palette_index |-> palette_index, palette |-> PIL_DEFAULT_PALETTES_DATA[palette_index + 1],
     active |-> active, big_block_enabled |-> p.big_block_enabled,
     multiplier |-> p.big_block_size_multiplier, num_big_blocks |-> p.num_big_blocks]

\* generate_art_image_pil(...) called with the parameters p when the random
\* module's state is g and the system's entropy is e
generate_art_image_pil(p, g, e) ==
    pil_after_setup(pil_seed(p.seed_value, g, e),
                    pil_settings(p, pil_palette_index(p.palette_index),
                                 pil_block_style_names(p.block_styles_str)))

(***************************************************************************)
(* Vector helpers (SVG_ArtGrid.py).  A colour is the palette's string; an  *)
(* opacity is held in hundredths; the fill of a drawing operation is the   *)
(* pair <<fill, opacity>>, NoOpacity when the element has no opacity.      *)
(***************************************************************************)
NoOpacity == 0 - 1

SvgOp(by, n, a, fill, opacity) == Op(by, n, a, <<fill, opacity>>)

\* svgwrite.shapes.Rect((x, y), (square_size, square_size), fill=background)
SvgCellFill(by, x, y, size, bg) == SvgOp(by, "rect", <<P(x), P(y), P(size), P(size)>>, bg, NoOpacity)

\* the return of create_background_colors on its fallback path
svg_bg_fallback ==
    [fallback |-> TRUE, bg_inner |-> <<"#", "E", "E", "E", "E", "E", "E">>,
     bg_outer |-> <<"#", "D", "D", "D", "D", "D", "D">>]

\* isinstance(c, str) and c.startswith('#') and len(c) in [4, 7]
SvgBgFormatOk(e) == e.str /\ StartsWithHash(e.s) /\ Len(e.s) \in {4, 7}

\* f"#{r:02x}{g:02x}{b:02x}" for the colour c = <<r, g, b>>
FmtColorLower(c) == <<"#">> \o Fmt02x(c[1]) \o Fmt02x(c[2]) \o Fmt02x(c[3])

\* the return of create_background_colors for the mixed pair m = <<inner, outer>>
svg_bg_mixed(m) == [fallback |-> FALSE, bg_inner |-> FmtColorLower(m[1]), bg_outer |-> FmtColorLower(m[2])]

\* its return for the two parsed colours p1, p2
svg_bg_from(p1, p2) ==
    IF p1.exc # "" \/ p2.exc # "" THEN svg_bg_fallback ELSE svg_bg_mixed(MixBackground(p1.v, p2.v))

\* create_background_colors(color_palette): [fallback, bg_inner, bg_outer]
create_background_colors(palette) ==
    IF Len(palette) < 2 THEN svg_bg_fallback
    ELSE IF ~SvgBgFormatOk(palette[1]) \/ ~SvgBgFormatOk(palette[2]) THEN svg_bg_fallback
    ELSE svg_bg_from(ParseRgb(Expand3(LStripHash(palette[1].s))), ParseRgb(Expand3(LStripHash(palette[2].s))))

\* the defaults "#333333" and "#CCCCCC" of get_two_colors
SvgDefaultFg == <<"#", "3", "3", "3", "3", "3", "3">>

SvgDefaultBg == <<"#", "C", "C", "C", "C", "C", "C">>

\* get_two_colors from the choice of the foreground on
svg_two_colors_fg(g, valid_colors, remaining_colors, bi) ==
    IF remaining_colors = << >>
    THEN [ev |-> <<Drw("get_two_colors", "choice", bi)>>, g |-> AdvN(g, 1),
          foreground |-> valid_colors[1].s, background |-> valid_colors[bi].s]
    ELSE [ev |-> <<Drw("get_two_colors", "choice", bi),
                   Drw("get_two_colors", "choice", ChoiceIdx(D(g, 2), Len(remaining_colors)))>>,
          g |-> AdvN(g, 2),
          foreground |-> remaining_colors[ChoiceIdx(D(g, 2), Len(remaining_colors))].s,
          background |-> valid_colors[bi].s]

\* get_two_colors from the choice of the background on
svg_two_colors_bg(g, valid_colors, bi) ==
    svg_two_colors_fg(g, valid_colors, Remaining(valid_colors, valid_colors[bi]), bi)

\* get_two_colors once the valid colours are known
svg_two_colors_valid(g, valid_colors) ==
    IF valid_colors = << >>
    THEN [ev |-> << >>, g |-> g, foreground |-> SvgDefaultFg, background |-> SvgDefaultBg]
    ELSE IF Len(valid_colors) = 1
    THEN [ev |-> << >>, g |-> g, foreground |-> valid_colors[1].s, background |-> SvgDefaultBg]
    ELSE svg_two_colors_bg(g, valid_colors, ChoiceIdx(D(g, 1), Len(valid_colors)))

\* get_two_colors(color_palette): [ev, g, foreground, background], two strings
get_two_colors(g, palette) == svg_two_colors_valid(g, SelectSeqIdx(palette, IsValidEntry))

\* get_random_opacity_str(chaos_factor): "1.0" is 100, str(round(v, 2)) is v in hundredths
get_random_opacity_str(g, chaos) ==
    IF Below(D(g, 1), chaos, 200)
    THEN [ev |-> <<Drw("get_random_opacity_str", "random", D(g, 1)),
                   Drw("get_random_opacity_str", "uniform", Uniform(D(g, 2), 600, 950))>>,
          g |-> AdvN(g, 2), v |-> (Uniform(D(g, 2), 600, 950) + 5) \div 10]
    ELSE [ev |-> <<Drw("get_random_opacity_str", "random", D(g, 1))>>, g |-> AdvN(g, 1), v |-> 100]

\* get_random_rotation_transform(p, cx, cy), p the probability in thousandths:
\* v = <<angle, cx, cy>> of "rotate(angle cx cy)"
get_random_rotation_transform(g, p, cx, cy) ==
    IF Below(D(g, 1), p, 1000)
    THEN [ev |-> <<Drw("get_random_rotation_transform", "random", D(g, 1)),
                   Drw("get_random_rotation_transform", "choice", ChoiceIdx(D(g, 2), Len(RotationAngles)))>>,
          g |-> AdvN(g, 2), v |-> <<RotationAngles[ChoiceIdx(D(g, 2), Len(RotationAngles))], cx, cy>>]
    ELSE [ev |-> <<Drw("get_random_rotation_transform", "random", D(g, 1))>>, g |-> AdvN(g, 1),
          v |-> <<0, cx, cy>>]

(***************************************************************************)
(* Vector drawing: the 12 style generators of SVG_ArtGrid.py.  Every       *)
(* generator returns [ev, g].  Lengths are in thousandths of a pixel.      *)
(***************************************************************************)
SvgCircle(by, cx, cy, r, fill, opacity) == SvgOp(by, "circle", <<cx, cy, r>>, fill, opacity)

\* a circle of radius r around the centre of the cell
SvgCenterCircle(by, x, y, size, r, fill, opacity) ==
    SvgCircle(by, P(x) + 500 * size, P(y) + 500 * size, r, fill, opacity)

\* svgwrite.container.Group(transform=..., opacity=...); tr = << >> without transform
SvgGroup(by, tr, opacity) == SvgOp(by, "group", tr, << >>, opacity)

\* a generator's events so far, then a helper's draws and the element made with
\* its return
then_element(ev, h, el) == [ev |-> ev \o h.ev \o <<el>>, g |-> h.g]

\* draw_circle from the third circle on: o2 the opacity of the second
svg_circle_tiny(by, ev, o2, irf, x, y, size, fg, chaos) ==
    IF ~Below(D(o2.g, 1), chaos, 200) THEN [ev |-> ev, g |-> AdvN(o2.g, 1)]
    ELSE LET o3 == get_random_opacity_str(AdvN(o2.g, 1), chaos)
         IN then_element(ev, o3, SvgCenterCircle(by, x, y, size, (size * irf) \div 4, fg, o3.v))

\* draw_circle from the second circle on: o1 the opacity of the first
svg_circle_inner(by, ev, o1, x, y, size, fg, bg, chaos) ==
    IF ~Below(D(o1.g, 1), 300 + 3 * chaos, 1000) THEN [ev |-> ev, g |-> AdvN(o1.g, 1)]
    ELSE LET irf == Uniform(D(o1.g, 2), 200, 500)
             o2  == get_random_opacity_str(AdvN(o1.g, 2), chaos)
         IN svg_circle_tiny(by, ev \o <<Drw(by, "uniform", irf)>> \o o2.ev
                                \o <<SvgCenterCircle(by, x, y, size, (size * irf) \div 2, bg, o2.v),
                                     Drw(by, "random", D(o2.g, 1))>>,
                            o2, irf, x, y, size, fg, chaos)

draw_circle(g, x, y, size, fg, bg, chaos) ==
    LET by  == "draw_circle"
        rf  == Uniform(D(g, 1), 800 - 2 * chaos, 1000)
        o1  == get_random_opacity_str(AdvN(g, 1), chaos)
    IN svg_circle_inner(by, <<SvgCellFill(by, x, y, size, bg), Drw(by, "uniform", rf)>> \o o1.ev
                            \o <<SvgCenterCircle(by, x, y, size, (size * rf) \div 2, fg, o1.v),
                                 Drw(by, "random", D(o1.g, 1))>>,
                        o1, x, y, size, fg, bg, chaos)

draw_opposite_circles(g, x, y, size, fg, bg, chaos) ==
    LET by  == "draw_opposite_circles"
        r_factor == Uniform(D(g, 1), 400, 600)
        o1  == get_random_opacity_str(AdvN(g, 1), chaos)
        o2  == get_random_opacity_str(o1.g, chaos)
    IN then_element(<<SvgCellFill(by, x, y, size, bg), Drw(by, "uniform", r_factor)>> \o o1.ev
                    \o <<SvgCircle(by, P(x) + 500 * size, P(y) + 500 * size, size * r_factor, fg, o1.v)>>,
                    o2,
                    SvgCircle(by, P(x + size) - 500 * size, P(y + size) - 500 * size, size * r_factor, fg, o2.v))

\* the two elements of draw_cross inside its group; d = nx * line_width / 2
\* with nx = 1 / sqrt(2) and line_width = thickness * 0.8
svg_cross_shape(by, is_plus, x1, y1, x2, y2, size, thickness, d, fg) ==
    IF is_plus
    THEN <<SvgOp(by, "rect", <<x1, y1 + (P(size) - thickness) \div 2, P(size), thickness>>, fg, NoOpacity),
           SvgOp(by, "rect", <<x1 + (P(size) - thickness) \div 2, y1, thickness, P(size)>>, fg, NoOpacity)>>
    ELSE <<SvgOp(by, "polygon", <<x1 - d, y1 + d, x2 - d, y2 + d, x2 + d, y2 - d, x1 + d, y1 - d>>,
                 fg, NoOpacity),
           SvgOp(by, "polygon", <<x2 - d, y1 - d, x1 - d, y2 - d, x1 + d, y2 + d, x2 + d, y1 + d>>,
                 fg, NoOpacity)>>

\* draw_cross from the group on: tr and o1 the returns of the two helpers
svg_cross_group(by, ev, tr, o1, shape) ==
    [ev |-> ev \o tr.ev \o o1.ev \o <<SvgGroup(by, tr.v, o1.v)>> \o shape, g |-> o1.g]

\* draw_cross after the transform
svg_cross_tr(by, ev, tr, shape, chaos) == svg_cross_group(by, ev, tr, get_random_opacity_str(tr.g, chaos), shape)

draw_cross(g, x, y, size, fg, bg, chaos) ==
    LET by  == "draw_cross"
        tf  == Uniform(D(g, 2), 250 - chaos, 400 + chaos)
    IN svg_cross_tr(by, <<SvgCellFill(by, x, y, size, bg), Drw(by, "random", D(g, 1)), Drw(by, "uniform", tf)>>,
                    get_random_rotation_transform(AdvN(g, 2), 5 * chaos, P(x) + 500 * size, P(y) + 500 * size),
                    svg_cross_shape(by, Below(D(g, 1), 1, 2), P(x), P(y), P(x + size), P(y + size), size,
                                    size * tf, ((((size * tf) * 8) \div 10) * 7071) \div 20000, fg),
                    chaos)

\* the group a generator opens after the cell's fill: o1 the opacity
svg_open_group(by, x, y, size, bg, o1) ==
    <<SvgCellFill(by, x, y, size, bg)>> \o o1.ev \o <<SvgGroup(by, << >>, o1.v)>>

\* draw_half_square after the group: g the state after it
svg_half_square_of(by, ev, g, x1, y1, x2, y2, h, fg) ==
    LET d == ChoiceIdx(D(g, 1), 4)
        points == CASE d = 1 -> <<x1, y1, x2, y1, x2, y1 + h, x1, y1 + h>>
                    [] d = 2 -> <<x1 + h, y1, x2, y1, x2, y2, x1 + h, y2>>
                    [] d = 3 -> <<x1, y1 + h, x2, y1 + h, x2, y2, x1, y2>>
                    [] OTHER -> <<x1, y1, x1 + h, y1, x1 + h, y2, x1, y2>>
    IN [ev |-> ev \o <<Drw(by, "choice", d), SvgOp(by, "polygon", points, fg, NoOpacity)>>, g |-> AdvN(g, 1)]

\* draw_half_square after get_random_opacity_str
svg_half_square_o(by, o1, x, y, size, fg, bg) ==
    svg_half_square_of(by, svg_open_group(by, x, y, size, bg, o1), o1.g,
                       P(x), P(y), P(x + size), P(y + size), 500 * size, fg)

draw_half_square(g, x, y, size, fg, bg, chaos) ==
    svg_half_square_o("draw_half_square", get_random_opacity_str(g, chaos), x, y, size, fg, bg)

\* draw_diagonal_square after the group: g the state after it
svg_diagonal_square_of(by, ev, g, x, y, size, fg, chaos) ==
    LET points == diagonal_points(Below(D(g, 1), 1, 2), x, y, size)
        ev1 == ev \o <<Drw(by, "random", D(g, 1)), Drw(by, "random", D(g, 2))>>
    IN IF Below(D(g, 2), chaos, 200)
       THEN [ev |-> ev1 \o <<Drw(by, "randint", RandInt(D(g, 3), 0, 2)), Drw(by, "random", D(g, 4)),
                             Drw(by, "random", D(g, 5)),
                             SvgOp(by, "polygon", move_point(points, RandInt(D(g, 3), 0, 2),
                                                             Centered(D(g, 4), size * chaos),
                                                             Centered(D(g, 5), size * chaos)), fg, NoOpacity)>>,
             g |-> AdvN(g, 5)]
       ELSE [ev |-> ev1 \o <<SvgOp(by, "polygon", points, fg, NoOpacity)>>, g |-> AdvN(g, 2)]

\* draw_diagonal_square after get_random_opacity_str
svg_diagonal_square_o(by, o1, x, y, size, fg, bg, chaos) ==
    svg_diagonal_square_of(by, svg_open_group(by, x, y, size, bg, o1), o1.g, x, y, size, fg, chaos)

draw_diagonal_square(g, x, y, size, fg, bg, chaos) ==
    svg_diagonal_square_o("draw_diagonal_square", get_random_opacity_str(g, chaos), x, y, size, fg, bg, chaos)

\* draw_quarter_circle after the group: g the state after it; the path is held
\* as <<corner, px, py, r>>, <<px, py>> the corner it starts from
svg_quarter_circle_of(by, ev, g, x, y, size, fg, chaos) ==
    LET c == ChoiceIdx(D(g, 1), 4)
        r_factor == Uniform(D(g, 2), 800 - 2 * chaos, 1200 + 2 * chaos)
    IN [ev |-> ev \o <<Drw(by, "choice", c), Drw(by, "uniform", r_factor),
                       SvgOp(by, "path",
                             <<c, IF c = 1 \/ c = 4 THEN P(x) ELSE P(x + size),
                               IF c = 1 \/ c = 2 THEN P(y) ELSE P(y + size),
                               Max2(100 * size, Min2(size * r_factor, 1500 * size))>>, fg, NoOpacity)>>,
        g |-> AdvN(g, 2)]

\* draw_quarter_circle after get_random_opacity_str
svg_quarter_circle_o(by, o1, x, y, size, fg, bg, chaos) ==
    svg_quarter_circle_of(by, svg_open_group(by, x, y, size, bg, o1), o1.g, x, y, size, fg, chaos)

draw_quarter_circle(g, x, y, size, fg, bg, chaos) ==
    svg_quarter_circle_o("draw_quarter_circle", get_random_opacity_str(g, chaos), x, y, size, fg, bg, chaos)

\* one dot of draw_dots: o1 the return of get_random_opacity_str
svg_dot(c, g, idx, uf, o1) ==
    LET by == "draw_dots"
    IN then_element(<<Drw(by, "random", D(g, 1)), Drw(by, "uniform", uf), Drw(by, "random", D(g, 3)),
                      Drw(by, "random", D(g, 4))>>, o1,
                    SvgCircle(by,
                              P(c.x) + ((2 * (idx \div c.n) + 1) * c.cell_size) \div 2
                                  + Centered(D(g, 3), (c.cell_size * c.chaos) \div 500),
                              P(c.y) + ((2 * (idx % c.n) + 1) * c.cell_size) \div 2
                                  + Centered(D(g, 4), (c.cell_size * c.chaos) \div 500),
                              Max2(1000, (c.cell_size * uf) \div 1000), c.fg, o1.v))

\* the body of the loops of draw_dots for i, j (idx = i * n + j), n = rows = cols
svg_dots_body(c, g, idx) ==
    IF Below(D(g, 1), c.chaos, 500)
    THEN [ev |-> <<Drw("draw_dots", "random", D(g, 1))>>, g |-> AdvN(g, 1)]
    ELSE svg_dot(c, g, idx, Uniform(D(g, 2), 200, 400 + c.chaos), get_random_opacity_str(AdvN(g, 4), c.chaos))

RECURSIVE svg_dots_loop(_, _, _, _)
svg_dots_loop(c, s, lo, hi) ==
    IF hi <= lo THEN [ev |-> << >>, g |-> s.g]
    ELSE IF hi = lo + 1 THEN svg_dots_body(c, s.g, lo)
    ELSE LET left  == svg_dots_loop(c, s, lo, (lo + hi) \div 2)
             right == svg_dots_loop(c, left, (lo + hi) \div 2, hi)
         IN [ev |-> left.ev \o right.ev, g |-> right.g]

\* draw_dots once num_dots_sqrt = n is known
svg_dots_of(g, n, x, y, size, fg, bg, chaos) ==
    after_prefix(<<SvgCellFill("draw_dots", x, y, size, bg), Drw("draw_dots", "choice", ChoiceIdx(D(g, 1), 4))>>,
                 svg_dots_loop([n |-> n, cell_size |-> (1000 * size) \div n, x |-> x, y |-> y, fg |-> fg,
                                chaos |-> chaos], [g |-> AdvN(g, 1)], 0, n * n))

draw_dots(g, x, y, size, fg, bg, chaos) ==
    svg_dots_of(g, num_dots_sqrt(ChoiceIdx(D(g, 1), 4), chaos), x, y, size, fg, bg, chaos)

\* draw_letter_block from the text element on: tr and o1 the returns of the helpers
svg_letter_text(by, ev, tr, o1, ch, cx, cy, font_size, fg) ==
    [ev |-> ev \o tr.ev \o o1.ev \o <<SvgOp(by, "text", <<ch, cx, cy, font_size>> \o tr.v, fg, o1.v)>>,
     g |-> o1.g]

\* draw_letter_block after the transform
svg_letter_tr(by, ev, tr, ch, cx, cy, font_size, fg, chaos) ==
    svg_letter_text(by, ev, tr, get_random_opacity_str(tr.g, chaos), ch, cx, cy, font_size, fg)

draw_letter_block(g, x, y, size, fg, bg, chaos) ==
    LET by  == "draw_letter_block"
        ch  == ChoiceIdx(D(g, 1), NumCharacters)
        fsf == Uniform(D(g, 2), 600 - chaos, 900 + chaos)
    IN svg_letter_tr(by, <<SvgCellFill(by, x, y, size, bg), Drw(by, "choice", ch), Drw(by, "uniform", fsf)>>,
                     get_random_rotation_transform(AdvN(g, 2), 8 * chaos, P(x) + 500 * size, P(y) + 500 * size),
                     ch, P(x) + 500 * size, P(y) + 500 * size, Max2(P(10), size * fsf), fg, chaos)

\* one circle of draw_concentric_circles: o1 the return of get_random_opacity_str
svg_concentric_circle(c, s, radius, o1) ==
    LET by == "draw_concentric_circles"
    IN [ev |-> <<Drw(by, "random", D(s.g, 1)), Drw(by, "random", D(s.g, 2))>> \o o1.ev
               \o <<SvgCircle(by, P(c.x) + 500 * c.size + Centered(D(s.g, 1), (c.size * c.chaos) \div 2),
                              P(c.y) + 500 * c.size + Centered(D(s.g, 2), (c.size * c.chaos) \div 2),
                              radius, IF s.is_fg THEN c.fg ELSE c.bg, o1.v)>>,
        g |-> o1.g, is_fg |-> ~s.is_fg]

\* the body of the loop of draw_concentric_circles for i = num_circles - k
svg_concentric_body(c, s, k) ==
    IF (c.max_radius * (c.num - k)) \div c.num < 1000 THEN [ev |-> << >>, g |-> s.g, is_fg |-> s.is_fg]
    ELSE svg_concentric_circle(c, s, (c.max_radius * (c.num - k)) \div c.num,
                               get_random_opacity_str(AdvN(s.g, 2), c.chaos))

RECURSIVE svg_concentric_loop(_, _, _, _)
svg_concentric_loop(c, s, lo, hi) ==
    IF hi <= lo THEN [ev |-> << >>, g |-> s.g, is_fg |-> s.is_fg]
    ELSE IF hi = lo + 1 THEN svg_concentric_body(c, s, lo)
    ELSE LET left  == svg_concentric_loop(c, s, lo, (lo + hi) \div 2)
             right == svg_concentric_loop(c, left, (lo + hi) \div 2, hi)
         IN [ev |-> left.ev \o right.ev, g |-> right.g, is_fg |-> right.is_fg]

\* draw_concentric_circles once num_circles and the factor of max_radius are known
svg_concentric_of(g, num_circles, mf, x, y, size, fg, bg, chaos) ==
    after_prefix(<<SvgCellFill("draw_concentric_circles", x, y, size, bg),
                   Drw("draw_concentric_circles", "randint", num_circles),
                   Drw("draw_concentric_circles", "uniform", mf)>>,
                 svg_concentric_loop([num |-> num_circles, max_radius |-> (size * mf) \div 2, x |-> x, y |-> y,
                                      size |-> size, fg |-> fg, bg |-> bg, chaos |-> chaos],
                                     [g |-> AdvN(g, 2), is_fg |-> TRUE], 0, num_circles))

draw_concentric_circles(g, x, y, size, fg, bg, chaos) ==
    svg_concentric_of(g, CountDraw(D(g, 1), 2, 2, 5, 3, chaos), Uniform(D(g, 2), 850, 1000),
                      x, y, size, fg, bg, chaos)

\* the rectangle of the stripe i of draw_stripes, uf the factor of its thickness
svg_stripe_rect(c, i, uf, stripe_color) ==
    LET stripe_thickness == Max2(1000, (((1000 * c.size) \div c.num) * uf) \div 1000)
        pos == (1000 * c.size * i) \div c.num
    IN <<Drw("draw_stripes", "uniform", uf),
         SvgOp("draw_stripes", "rect",
               IF c.is_horizontal THEN <<P(c.x), P(c.y) + pos, P(c.size), stripe_thickness>>
               ELSE <<P(c.x) + pos, P(c.y), stripe_thickness, P(c.size)>>, stripe_color, NoOpacity)>>

\* the stripe i from the test of its colour on: ev the events of the iteration
\* so far, g the state after them.
\* if stripe_color == background and random.random() < chaos_factor * 0.6: continue
svg_stripe_drawn(c, i, ev, stripe_color, g) ==
    IF stripe_color # c.bg
    THEN [ev |-> ev \o svg_stripe_rect(c, i, Uniform(D(g, 1), 700 - 2 * c.chaos, 1300 + 2 * c.chaos), stripe_color),
          g |-> AdvN(g, 1)]
    ELSE IF Below(D(g, 1), 6 * c.chaos, 1000)
    THEN [ev |-> ev \o <<Drw("draw_stripes", "random", D(g, 1))>>, g |-> AdvN(g, 1)]
    ELSE [ev |-> ev \o <<Drw("draw_stripes", "random", D(g, 1))>>
                 \o svg_stripe_rect(c, i, Uniform(D(g, 2), 700 - 2 * c.chaos, 1300 + 2 * c.chaos), stripe_color),
          g |-> AdvN(g, 2)]

\* the body of the loop of draw_stripes:
\* foreground if (i % 2 == 0 or random.random() < chaos_factor * 0.3) else background
svg_stripes_body(c, g, i) ==
    IF i % 2 = 0 THEN svg_stripe_drawn(c, i, << >>, c.fg, g)
    ELSE svg_stripe_drawn(c, i, <<Drw("draw_stripes", "random", D(g, 1))>>,
                          IF Below(D(g, 1), 3 * c.chaos, 1000) THEN c.fg ELSE c.bg, AdvN(g, 1))

RECURSIVE svg_stripes_loop(_, _, _, _)
svg_stripes_loop(c, s, lo, hi) ==
    IF hi <= lo THEN [ev |-> << >>, g |-> s.g]
    ELSE IF hi = lo + 1 THEN svg_stripes_body(c, s.g, lo)
    ELSE LET left  == svg_stripes_loop(c, s, lo, (lo + hi) \div 2)
             right == svg_stripes_loop(c, left, (lo + hi) \div 2, hi)
         IN [ev |-> left.ev \o right.ev, g |-> right.g]

\* draw_stripes once num_stripes, the index hi of the direction and the
\* group's opacity o1 are known
svg_stripes_of(g, num_stripes, hi, o1, x, y, size, fg, bg, chaos) ==
    after_prefix(<<SvgCellFill("draw_stripes", x, y, size, bg), Drw("draw_stripes", "randint", num_stripes),
                   Drw("draw_stripes", "choice", hi)>> \o o1.ev \o <<SvgGroup("draw_stripes", << >>, o1.v)>>,
                 svg_stripes_loop([num |-> num_stripes, is_horizontal |-> hi = 1, x |-> x, y |-> y,
                                   size |-> size, fg |-> fg, bg |-> bg, chaos |-> chaos],
                                  [g |-> o1.g], 0, num_stripes))

draw_stripes(g, x, y, size, fg, bg, chaos) ==
    svg_stripes_of(g, CountDraw(D(g, 1), 3, 2, 7, 4, chaos), ChoiceIdx(D(g, 2), 2),
                   get_random_opacity_str(AdvN(g, 2), chaos), x, y, size, fg, bg, chaos)

\* the element draw_rotated_shape puts in its group, and the draws it makes for
\* it, from the state g
svg_rotated_shape_el(by, shape_type, inner_size, g, cx, cy, size, fg) ==
    LET f1 == Uniform(D(g, 1), 700, 1300)
        f2 == Uniform(D(g, 2), 700, 1300)
    IN CASE shape_type = 1 ->
              [ev |-> <<Drw(by, "uniform", f1), Drw(by, "uniform", f2),
                        SvgOp(by, "rect", <<cx - ClampSide(inner_size, f1, size) \div 2,
                                            cy - ClampSide(inner_size, f2, size) \div 2,
                                            ClampSide(inner_size, f1, size), ClampSide(inner_size, f2, size)>>,
                              fg, NoOpacity)>>, g |-> AdvN(g, 2)]
         [] shape_type = 2 ->
              [ev |-> <<SvgCircle(by, cx, cy, Max2(1000, inner_size \div 2), fg, NoOpacity)>>, g |-> g]
         [] OTHER ->
              [ev |-> <<Drw(by, "uniform", f1), Drw(by, "uniform", f2),
                        SvgOp(by, "ellipse", <<cx, cy, Max2(1000, (inner_size * f1) \div 2000),
                                               Max2(1000, (inner_size * f2) \div 2000)>>, fg, NoOpacity)>>,
               g |-> AdvN(g, 2)]

\* draw_rotated_shape from the group on: tr and o1 the returns of the helpers
svg_rotated_group(by, ev, tr, o1, el) ==
    [ev |-> ev \o tr.ev \o o1.ev \o <<SvgGroup(by, tr.v, o1.v)>> \o el.ev, g |-> el.g]

\* draw_rotated_shape after the opacity
svg_rotated_o(by, ev, tr, o1, shape_type, inner_size, cx, cy, size, fg) ==
    svg_rotated_group(by, ev, tr, o1, svg_rotated_shape_el(by, shape_type, inner_size, o1.g, cx, cy, size, fg))

\* draw_rotated_shape after the transform
svg_rotated_tr(by, ev, tr, shape_type, inner_size, cx, cy, size, fg, chaos) ==
    svg_rotated_o(by, ev, tr, get_random_opacity_str(tr.g, chaos), shape_type, inner_size, cx, cy, size, fg)

draw_rotated_shape(g, x, y, size, fg, bg, chaos) ==
    LET by  == "draw_rotated_shape"
        shape_type == ChoiceIdx(D(g, 1), 3)
        isf == Uniform(D(g, 2), 500 - chaos, 800 + chaos)
    IN svg_rotated_tr(by, <<SvgCellFill(by, x, y, size, bg), Drw(by, "choice", shape_type),
                            Drw(by, "uniform", isf)>>,
                      get_random_rotation_transform(AdvN(g, 2), 15 * chaos, P(x) + 500 * size, P(y) + 500 * size),
                      shape_type, size * isf, P(x) + 500 * size, P(y) + 500 * size, size, fg, chaos)

\* the draw number j (from 1) of the segments of one wavy line: for each j_seg
\* of range(num_segments), uniform(-10,10), random(), uniform(-5,5),
\* uniform(-10,10), random(), uniform(-5,5) and, but for the last j_seg,
\* random() (the control points they feed go through sin and are not computed)
svg_wavy_draw(u, j) ==
    CASE (j - 1) % 7 \in {0, 3} -> Drw("draw_wavy_lines", "uniform", Uniform(u, 0 - 10000, 10000))
      [] (j - 1) % 7 \in {2, 5} -> Drw("draw_wavy_lines", "uniform", Uniform(u, 0 - 5000, 5000))
      [] OTHER                  -> Drw("draw_wavy_lines", "random", u)

\* the draws of the segments of one line, the first of them the draw number
\* first of g
svg_wavy_segments(g, first, num_segments) ==
    [j \in 1..(7 * num_segments - 1) |-> svg_wavy_draw(D(g, first + j - 1), j)]

\* one line of draw_wavy_lines once its opacity o1 and num_segments are known
svg_wavy_line(c, o1, i, num_segments) ==
    LET by == "draw_wavy_lines"
        start_line == (IF c.is_horizontal THEN P(c.y) ELSE P(c.x)) + (1000 * c.size * (i + 1)) \div (c.num + 1)
    IN [ev |-> o1.ev \o <<Drw(by, "uniform", Uniform(D(o1.g, 1), 50, 200 + c.chaos)),
                          Drw(by, "uniform", Uniform(D(o1.g, 2), 500, 2000 + 10 * c.chaos)),
                          Drw(by, "randint", num_segments)>>
               \o svg_wavy_segments(o1.g, 4, num_segments)
               \o <<SvgOp(by, "path",
                          (IF c.is_horizontal THEN <<P(c.x), start_line>> ELSE <<start_line, P(c.y)>>)
                          \o <<num_segments, c.stroke_w>>, c.fg, o1.v)>>,
        g |-> AdvN(o1.g, 3 + 7 * num_segments - 1)]

\* one line after get_random_opacity_str
svg_wavy_o(c, o1, i) == svg_wavy_line(c, o1, i, RandInt(D(o1.g, 3), 3, 7))

\* the body of the loop of draw_wavy_lines
svg_wavy_body(c, g, i) == svg_wavy_o(c, get_random_opacity_str(g, c.chaos), i)

RECURSIVE svg_wavy_loop(_, _, _, _)
svg_wavy_loop(c, s, lo, hi) ==
    IF hi <= lo THEN [ev |-> << >>, g |-> s.g]
    ELSE IF hi = lo + 1 THEN svg_wavy_body(c, s.g, lo)
    ELSE LET left  == svg_wavy_loop(c, s, lo, (lo + hi) \div 2)
             right == svg_wavy_loop(c, left, (lo + hi) \div 2, hi)
         IN [ev |-> left.ev \o right.ev, g |-> right.g]

\* draw_wavy_lines once num_lines, the index hi of the direction and the factor
\* swf of the stroke are known
svg_wavy_of(g, num_lines, hi, swf, x, y, size, fg, bg, chaos) ==
    after_prefix(<<SvgCellFill("draw_wavy_lines", x, y, size, bg), Drw("draw_wavy_lines", "randint", num_lines),
                   Drw("draw_wavy_lines", "choice", hi), Drw("draw_wavy_lines", "uniform", swf)>>,
                 svg_wavy_loop([num |-> num_lines, is_horizontal |-> hi = 1, stroke_w |-> Max2(1000, size * swf),
                                x |-> x, y |-> y, size |-> size, fg |-> fg, chaos |-> chaos],
                               [g |-> AdvN(g, 3)], 0, num_lines))

draw_wavy_lines(g, x, y, size, fg, bg, chaos) ==
    svg_wavy_of(g, CountDraw(D(g, 1), 2, 2, 5, 3, chaos), ChoiceIdx(D(g, 2), 2),
                Uniform(D(g, 3), 20, 50 + chaos \div 2), x, y, size, fg, bg, chaos)

(***************************************************************************)
(* The vector generator (SVG_ArtGrid.py).                                  *)
(***************************************************************************)
\* DEFAULT_PALETTES_DATA of SVG_ArtGrid.py
SVG_DEFAULT_PALETTES_DATA == StaticPalettes

\* the keys of style_function_map, in insertion order
SvgStyleNames == ALL_POSSIBLE_STYLE_NAMES

\* style_function_map[name](group, x, y, size, foreground, background, chaos_factor)
CallSvgStyle(name, g, x, y, size, fg, bg, chaos) ==
    CASE name = "circle"             -> draw_circle(g, x, y, size, fg, bg, chaos)
      [] name = "opposite_circles"   -> draw_opposite_circles(g, x, y, size, fg, bg, chaos)
      [] name = "cross"              -> draw_cross(g, x, y, size, fg, bg, chaos)
      [] name = "half_square"        -> draw_half_square(g, x, y, size, fg, bg, chaos)
      [] name = "diagonal_square"    -> draw_diagonal_square(g, x, y, size, fg, bg, chaos)
      [] name = "quarter_circle"     -> draw_quarter_circle(g, x, y, size, fg, bg, chaos)
      [] name = "dots"               -> draw_dots(g, x, y, size, fg, bg, chaos)
      [] name = "letter_block"       -> draw_letter_block(g, x, y, size, fg, bg, chaos)
      [] name = "concentric_circles" -> draw_concentric_circles(g, x, y, size, fg, bg, chaos)
      [] name = "stripes"            -> draw_stripes(g, x, y, size, fg, bg, chaos)
      [] name = "rotated_shape"      -> draw_rotated_shape(g, x, y, size, fg, bg, chaos)
      [] name = "wavy_lines"         -> draw_wavy_lines(g, x, y, size, fg, bg, chaos)

\* the seeding both vector generators start with: [exc, g, mode]
svg_seed(seed, g, e) ==
    IF seed.kind = "digits" THEN [exc |-> "", g |-> SeedState(seed.v), mode |-> "seeded"]
    ELSE IF seed.kind = "int" THEN [exc |-> "", g |-> SeedState(seed.v), mode |-> "seeded"]
    ELSE [exc |-> "", g |-> EntropyState(e), mode |-> "entropy"]

\* lst[i] of Python for a list lst and an int i: [exc, v, idx], idx counted from 0
ListIndex(lst, i) ==
    IF 0 <= i /\ i < Len(lst) THEN [exc |-> "", v |-> lst[i + 1], idx |-> i]
    ELSE IF i < 0 /\ 0 - i <= Len(lst) THEN [exc |-> "", v |-> lst[Len(lst) + i + 1], idx |-> Len(lst) + i]
    ELSE [exc |-> "IndexError", v |-> << >>, idx |-> i]

\* [style_function_map[name] for name in block_styles_names if name in style_function_map],
\* or every function of the map when that list is empty
svg_active_style_funcs(block_styles_names) ==
    AllIfEmpty(SelectSeqIdx(block_styles_names, LAMBDA n : InSeq(n, SvgStyleNames)), SvgStyleNames)

\* the gradient of the background and the rectangle it fills
svg_background_of(bg_colors, gradient_id, svg_width, svg_height) ==
    LET by == "generate_art_svg_string"
    IN Tag(<<Drw(by, "randint", gradient_id),
             SvgOp(by, "radialGradient", <<gradient_id>>, <<bg_colors.bg_inner, bg_colors.bg_outer>>, NoOpacity),
             SvgOp(by, "rect", <<0, 0, P(svg_width), P(svg_height)>>, <<"url", gradient_id>>, NoOpacity)>>,
           "background", << >>)

\* the background of generate_art_svg_string, drawn from the state g
svg_background(g, palette, svg_width, svg_height) ==
    svg_background_of(create_background_colors(palette), RandInt(D(g, 1), 1000, 9999), svg_width, svg_height)

\* for r_idx in range(num_rows): for c_idx in range(num_cols): the cell
\* <<r_idx, c_idx>> of the iteration number idx (from 0)
svg_cell_of(idx, num_rows, num_cols) == <<idx \div num_cols, idx % num_cols>>

\* one cell once its style is chosen
svg_cell_styled(cell, colors, si, shape) ==
    [ev |-> block_events(colors, si, shape, "generate_art_svg_string", "colors", "style", "shape", cell),
     g |-> shape.g]

\* one cell once its colours are chosen
svg_cell_colored(c, cell, colors, si) ==
    svg_cell_styled(cell, colors, si,
                    CallSvgStyle(c.active[si], AdvN(colors.g, 1), cell[2] * c.size, cell[1] * c.size, c.size,
                                 colors.foreground, colors.background, c.chaos))

\* draw_func = random.choice(active_style_funcs), after the colours
svg_cell_colors(c, cell, colors) == svg_cell_colored(c, cell, colors, ChoiceIdx(D(colors.g, 1), Len(c.active)))

\* the body of the loop of generate_art_svg_string over r_idx, c_idx
svg_cells_body(c, g, idx) ==
    svg_cell_colors(c, svg_cell_of(idx, c.num_rows, c.num_cols), get_two_colors(g, c.palette))

RECURSIVE svg_cells_loop(_, _, _, _)
svg_cells_loop(c, s, lo, hi) ==
    IF hi <= lo THEN [ev |-> << >>, g |-> s.g]
    ELSE IF hi = lo + 1 THEN svg_cells_body(c, s.g, lo)
    ELSE LET left  == svg_cells_loop(c, s, lo, (lo + hi) \div 2)
             right == svg_cells_loop(c, left, (lo + hi) \div 2, hi)
         IN [ev |-> left.ev \o right.ev, g |-> right.g]

\* num_rows >= multiplier and num_cols >= multiplier
svg_big_block_fits(num_rows, num_cols, multiplier) == num_rows >= multiplier /\ num_cols >= multiplier

\* random.randint(0, n - multiplier), n = num_cols or num_rows
svg_big_block_offset(u, n, multiplier) == RandInt(u, 0, n - multiplier)

\* the big block once its style is chosen
svg_big_block_styled(block, colors, si, shape) ==
    [ev |-> Tag(<<Drw("generate_art_svg_string", "randint", block.col),
                  Drw("generate_art_svg_string", "randint", block.row)>>, "bb_offset", <<1>>)
            \o block_events(colors, si, shape, "generate_art_svg_string", "bb_colors", "bb_style", "bb_shape", <<1>>),
     g |-> shape.g, diag |-> 0, blocks |-> <<block>>]

\* the big block once its colours are chosen
svg_big_block_colored(c, block, colors, si) ==
    svg_big_block_styled(block, colors, si,
                         CallSvgStyle(c.active[si], AdvN(colors.g, 1), block.x, block.y, block.size,
                                      colors.foreground, colors.background, c.chaos))

\* the big block once its place is drawn
svg_big_block_at(c, block, colors) ==
    svg_big_block_colored(c, block, colors, ChoiceIdx(D(colors.g, 1), Len(c.active)))

\* the big block of generate_art_svg_string, from the state g: [ev, g, diag, blocks];
\* diag counts the messages printed
svg_big_block(c, g) ==
    IF ~svg_big_block_fits(c.num_rows, c.num_cols, c.multiplier)
    THEN [ev |-> << >>, g |-> g, diag |-> 1, blocks |-> << >>]
    ELSE svg_big_block_at(c, BigBlock(svg_big_block_offset(D(g, 1), c.num_cols, c.multiplier),
                                      svg_big_block_offset(D(g, 2), c.num_rows, c.multiplier),
                                      c.size, c.multiplier),
                          get_two_colors(AdvN(g, 2), c.palette))

\* the return of generate_art_svg_string: sd the seeding, c the settings, bg the
\* background's events, cells and big the returns of the loop and of the big block
svg_result(sd, c, bg, cells, big) ==
    [ev |-> bg \o cells.ev \o big.ev, status |-> "ok", exc |-> "", mode |-> sd.mode, g |-> big.g,
     diag |-> big.diag, blocks |-> big.blocks, palette |-> c.palette_index, active |-> c.active,
     width |-> c.num_cols * c.size, height |-> c.num_rows * c.size]

\* generate_art_svg_string from "if params['big_block_enabled']:" on
svg_after_cells(sd, c, cells) ==
    svg_result(sd, c, svg_background(sd.g, c.palette, c.num_cols * c.size, c.num_rows * c.size), cells,
               IF c.big_block_enabled THEN svg_big_block(c, cells.g)
               ELSE [ev |-> << >>, g |-> cells.g, diag |-> 0, blocks |-> << >>])

\* the settings the loop of generate_art_svg_string reads: sel the palette selected
svg_settings(p, sel) ==
    [num_rows |-> p.rows, num_cols |-> p.cols, size |-> p.square_size, chaos |-> p.chaos_factor,
     palette_index |-> sel.idx, palette |-> sel.v, active |-> svg_active_style_funcs(p.block_styles),
     big_block_enabled |-> p.big_block_enabled, multiplier |-> p.big_block_size]

\* a palette that is the number 5 instead of a list (a palette file that holds
\* [5]): create_background_colors(5) passes "not color_palette" and raises the
\* TypeError of len(5)
NumberPalette == <<[str |-> FALSE, s |-> <<"5">>]>>

\* generate_art_svg_string after the seeding and the selection of the palette
svg_after_setup(p, sd, sel) ==
    IF p.current_palette_list = << >> THEN NoRun("none", "", sd.mode, sd.g)
    ELSE IF sel.exc # "" THEN NoRun("raised", sel.exc, sd.mode, sd.g)
    ELSE IF sel.v = NumberPalette THEN NoRun("raised", "TypeError", sd.mode, sd.g)
    ELSE svg_after_cells(sd, svg_settings(p, sel),
                         svg_cells_loop(svg_settings(p, sel), [g |-> AdvN(sd.g, 1)], 0, p.rows * p.cols))

\* generate_art_svg_string(params) called with params = p when the random
\* module's state is g and the system's entropy is e; status "none" is the
\* return of None
generate_art_svg_string(p, g, e) ==
    svg_after_setup(p, svg_seed(p.seed, g, e), ListIndex(p.current_palette_list, p.palette_index))

(***************************************************************************)
(* The requests the callers make.                                          *)
(***************************************************************************)
\* the values random.seed() can get from the system's entropy
EntropyValues == 0..MaxEntropy

IntSeed(v) == [kind |-> "int", v |-> v]

NoSeed == [kind |-> "none", v |-> 0]

\* the seeds of the requests that vary the grid
GridSeeds == {0, 7}

ChaosFactors == {0, 100}

Item(name) == [pad |-> FALSE, name |-> name]

Padded(name) == [pad |-> TRUE, name |-> name]

\* ",".join(ALL_POSSIBLE_STYLE_NAMES), the default of the node's block_styles
AllStylesString == [i \in 1..Len(ALL_POSSIBLE_STYLE_NAMES) |-> Item(ALL_POSSIBLE_STYLE_NAMES[i])]

\* block_styles_str: None, "", "   ", "not_a_style", the full enumeration,
\* "circle,cross,dots,stripes", " dots , bogus,dots", "stripes,dots,cross,circle",
\* "circle,cross", "circle,circle,cross"
PilStyleStrings ==
    { << >>, <<Item("")>>, <<Padded("")>>, <<Item("not_a_style")>>, AllStylesString,
      <<Item("circle"), Item("cross"), Item("dots"), Item("stripes")>>,
      <<Padded("dots"), Item("bogus"), Item("dots")>>,
      <<Item("stripes"), Item("dots"), Item("cross"), Item("circle")>>,
      <<Item("circle"), Item("cross")>>,
      <<Item("circle"), Item("circle"), Item("cross")>> }

\* the big-block settings of a request: enabled, multiplier, number of blocks
BigBlockSettings ==
    {[on |-> FALSE, m |-> 2, n |-> 1]}
        \cup {[on |-> TRUE, m |-> m, n |-> n] : m \in {2, 3}, n \in 1..MaxBigBlocks}

\* generate_art_image_pil(4, 4, 80, 0, "circle,cross,dots,stripes", True, 2, 1, 0.2, 42)
\* of the file's own test, on a 2 x 2 grid of cells of 10 pixels, every style allowed
PilBase ==
    [num_rows |-> 2, num_cols |-> 2, square_size |-> 10, palette_index |-> 0,
     block_styles_str |-> << >>, big_block_enabled |-> TRUE, big_block_size_multiplier |-> 2,
     num_big_blocks |-> 1, chaos_factor |-> 100, seed_value |-> IntSeed(42)]

PilPaletteIndexes == {0 - 1, 0, 3, Len(PIL_DEFAULT_PALETTES_DATA) - 1, Len(PIL_DEFAULT_PALETTES_DATA)}

PilSeedValues == {NoSeed, IntSeed(0 - 1), IntSeed(0 - 7), IntSeed(0), IntSeed(7), [kind |-> "text", v |-> 0]}

\* sides of the cells next to the 10 pixels of PilBase (the node offers 10 to
\* 500 in steps of 10)
PilSquareSizes == {30, 60}

PilRequests ==
    {[PilBase EXCEPT !.num_rows = r, !.num_cols = c, !.big_block_enabled = b.on,
                     !.big_block_size_multiplier = b.m, !.num_big_blocks = b.n,
                     !.chaos_factor = ch, !.seed_value = IntSeed(sd)] :
        r \in 1..MaxGrid, c \in 1..MaxGrid, b \in BigBlockSettings, ch \in ChaosFactors, sd \in GridSeeds}
    \cup {[PilBase EXCEPT !.palette_index = i] : i \in PilPaletteIndexes}
    \cup {[PilBase EXCEPT !.block_styles_str = st, !.seed_value = IntSeed(sd)] :
             st \in PilStyleStrings, sd \in GridSeeds}
    \cup {[PilBase EXCEPT !.seed_value = sd] : sd \in PilSeedValues}
    \cup {[PilBase EXCEPT !.square_size = s, !.num_rows = r, !.num_cols = c] :
             s \in PilSquareSizes, r \in 1..2, c \in 1..2}

\* palettes a palette file can hold next to well-formed ones
HexStr(chars) == Str(<<"#">> \o chars)

CustomPalettes ==
    << <<HexStr(<<"F","F","0","0","0","0">>), HexStr(<<"0","0","F","F","0","0">>),
         HexStr(<<"0","0","0","0","F","F">>)>>,
       <<HexStr(<<"F","F","F">>), HexStr(<<"F","F","F","F","F","F">>), HexStr(<<"0","0","0">>)>>,
       <<NonStr, Str(<<"F","F","0","0","0","0">>), HexStr(<<"1","2">>), HexStr(<<"0","0","F","F","0","0">>)>> >>

SvgPaletteLists == {SVG_DEFAULT_PALETTES_DATA, CustomPalettes, << >>}

SvgStyleLists ==
    { << >>, <<"">>, <<"not_a_style">>, ALL_POSSIBLE_STYLE_NAMES,
      <<"circle", "cross", "dots", "stripes">>, <<"dots", "bogus", "dots">>,
      <<"stripes", "dots", "cross", "circle">>, <<"circle", "cross">>, <<"circle", "circle", "cross">> }

SvgBase ==
    [rows |-> 2, cols |-> 2, square_size |-> 10, current_palette_list |-> SVG_DEFAULT_PALETTES_DATA,
     palette_index |-> 0, block_styles |-> << >>, big_block_enabled |-> TRUE, big_block_size |-> 2,
     chaos_factor |-> 100, seed |-> IntSeed(42)]

SvgPaletteIndexes == {0 - 5, 0 - 1, 0, 2, 3, 4}

SvgSeedValues ==
    {NoSeed, IntSeed(0 - 1), IntSeed(0 - 7), IntSeed(0), IntSeed(7), [kind |-> "digits", v |-> 7],
     [kind |-> "text", v |-> 0], [kind |-> "empty", v |-> 0]}

SvgRequests ==
    {[SvgBase EXCEPT !.rows = r, !.cols = c, !.big_block_enabled = b.on, !.big_block_size = b.m,
                     !.chaos_factor = ch, !.seed = IntSeed(sd)] :
        r \in 1..MaxGrid, c \in 1..MaxGrid, b \in {x \in BigBlockSettings : x.n = 1},
        ch \in ChaosFactors, sd \in GridSeeds}
    \cup {[SvgBase EXCEPT !.current_palette_list = pl, !.palette_index = i] :
             pl \in SvgPaletteLists, i \in SvgPaletteIndexes}
    \cup {[SvgBase EXCEPT !.block_styles = st, !.seed = IntSeed(sd)] : st \in SvgStyleLists, sd \in GridSeeds}
    \cup {[SvgBase EXCEPT !.seed = sd] : sd \in SvgSeedValues}

(***************************************************************************)
(* The state machine of the generators.                                    *)
(*   rng   the hidden state of the random module                           *)
(*   req   the call a caller has prepared: [backend, p], or NoReq          *)
(*   last  the call that returned last: [call, p, res], or NoLast          *)
(***************************************************************************)
NoReq == [backend |-> "none"]

NoLast == [call |-> "none"]

RngStates == {[s |-> s, t |-> << >>] : s \in 0..(RngModulus - 1)}

\* the interpreter has imported random, which seeded itself from the entropy,
\* on a machine without the two font files (cour.ttf and arial.ttf ship with
\* Windows); the machines that have them are met in SpecStyles
Init ==
    /\ rng \in {EntropyState(e) : e \in EntropyValues}
    /\ req = NoReq
    /\ last = NoLast
    /\ fonts = {}

\* no call is prepared and not yet made: both callers run one call at a time
Idle == req = NoReq \/ last # NoLast

\* a caller of generate_art_image_pil (the node, the file's own test, a module
\* that imports the function) prepares a call
RequestPil ==
    \E p \in PilRequests :
        /\ Idle
        /\ req' = [backend |-> "pil", p |-> p]
        /\ last' = NoLast
        /\ UNCHANGED <<rng, fonts>>

\* a caller of generate_art_svg_string (the window, a module that imports the
\* function) prepares a call
RequestSvg ==
    \E p \in SvgRequests :
        /\ Idle
        /\ req' = [backend |-> "svg", p |-> p]
        /\ last' = NoLast
        /\ UNCHANGED <<rng, fonts>>

\* a call returns (or raises): the random module keeps the state the call left,
\* and the caller holds the result
Returned(call, p, res) ==
    /\ rng' = res.g
    /\ last' = [call |-> call, p |-> p, res |-> res]
    /\ UNCHANGED <<req, fonts>>

\* generate_art_image_pil runs from its first line to its return or its raise
GeneratePil ==
    /\ req.backend = "pil"
    /\ \E e \in EntropyValues :
          Returned("generate_art_image_pil", req.p, generate_art_image_pil(req.p, rng, e))

\* generate_art_svg_string runs from its first line to its return or its raise
GenerateSvg ==
    /\ req.backend = "svg"
    /\ \E e \in EntropyValues :
          Returned("generate_art_svg_string", req.p, generate_art_svg_string(req.p, rng, e))

Next == RequestPil \/ RequestSvg \/ GeneratePil \/ GenerateSvg

Spec == Init /\ [][Next]_vars

(***************************************************************************)
(* The colour helpers called on their own, as the styles' callers and any  *)
(* importing module call them.  The next outcomes of the random module are *)
(* spelled out in rng.t, so that every outcome of a draw is met.           *)
(***************************************************************************)
\* the number of outcomes spelled out
MaxTape == 4

\* the raw values spelled out: the least, a middle one, the greatest
TapeValues == {0, (RngModulus - 1) \div 2, RngModulus - 1}

G6 == HexStr(<<"G","G","G","G","G","G">>)

\* palettes of a palette file: empty, one colour, two colours, a colour twice,
\* a colour in its short and in its long form next to another, a string too
\* short, digits that are no hex digits, an entry that is no string and one
\* without '#', the first palette of the file, the first and the last of the
\* generated palettes of the raster file, and two palettes without any hex colour
HelperPalettes ==
    { << >>,
      <<G6>>,
      <<NonStr, Str(<<"F","F","0","0","0","0">>), HexStr(<<"1","2">>)>>,
      <<HexStr(<<"F","F","0","0","0","0">>)>>,
      <<HexStr(<<"F","F","0","0","0","0">>), HexStr(<<"0","0","F","F","0","0">>)>>,
      <<HexStr(<<"F","F","0","0","0","0">>), HexStr(<<"F","F","0","0","0","0">>)>>,
      <<HexStr(<<"F","F","F">>), HexStr(<<"F","F","F","F","F","F">>), HexStr(<<"0","0","0","0","0","0">>)>>,
      <<HexStr(<<"1","2">>), HexStr(<<"F","F","F","F","F","F">>)>>,
      <<HexStr(<<"G","G","0","0","0","0">>), HexStr(<<"F","F","0","0","0","0">>),
        HexStr(<<"0","0","F","F","0","0">>)>>,
      <<G6, HexStr(<<"F","F","0","0","0","0">>)>>,
      <<NonStr, Str(<<"F","F","0","0","0","0">>), HexStr(<<"0","0","F","F","0","0">>),
        HexStr(<<"0","0","0","0","F","F">>)>>,
      StaticPalettes[1], PIL_DEFAULT_PALETTES_DATA[5], PIL_DEFAULT_PALETTES_DATA[Len(PIL_DEFAULT_PALETTES_DATA)] }

HelperChaos == {0, 50, 100}

InitColors ==
    /\ rng \in {[s |-> 0, t |-> t] : t \in [1..MaxTape -> TapeValues]}
    /\ req = NoReq
    /\ last = NoLast
    /\ fonts = {}

\* a helper that draws has returned (or raised) res
DrawingCall(call, palette, chaos, res) ==
    /\ rng' = res.g
    /\ last' = [call |-> call, p |-> [color_palette |-> palette, chaos_factor |-> chaos], res |-> res]
    /\ UNCHANGED <<req, fonts>>

\* a helper that does not draw has returned res
PureCall(call, palette, res) ==
    /\ last' = [call |-> call, p |-> [color_palette |-> palette, chaos_factor |-> 0], res |-> res]
    /\ UNCHANGED <<rng, req, fonts>>

CallPilGetTwoColors ==
    /\ req = NoReq
    /\ \E palette \in HelperPalettes : \E chaos \in HelperChaos :
          DrawingCall("pil_get_two_colors", palette, chaos, pil_get_two_colors(rng, palette, chaos))

CallGetTwoColors ==
    /\ req = NoReq
    /\ \E palette \in HelperPalettes :
          DrawingCall("get_two_colors", palette, 0, get_two_colors(rng, palette))

CallPilCreateBackgroundColors ==
    /\ req = NoReq
    /\ \E palette \in HelperPalettes :
          PureCall("pil_create_background_colors", palette, pil_create_background_colors(palette))

CallCreateBackgroundColors ==
    /\ req = NoReq
    /\ \E palette \in HelperPalettes :
          PureCall("create_background_colors", palette, create_background_colors(palette))

NextColors ==
    \/ CallPilGetTwoColors
    \/ CallGetTwoColors
    \/ CallPilCreateBackgroundColors
    \/ CallCreateBackgroundColors

SpecColors == InitColors /\ [][NextColors]_vars

(***************************************************************************)
(* The style generators called on their own, as the two compositors and    *)
(* any importing module call them: with a square, two colours and a chaos  *)
(* factor.  The next outcomes of the random module are spelled out in      *)
(* rng.t, as for the colour helpers.                                       *)
(***************************************************************************)
\* the top-left corners and the sides of the squares the styles are called on
StyleOrigins == {<<0, 0>>, <<20, 10>>}

StyleSizes == {10, 15, 40}

\* a foreground and a background as pil_get_two_colors returns them
PilForeground == <<255, 107, 107, 200>>

PilBackground == <<6, 214, 160, 255>>

\* a foreground and a background as get_two_colors returns them
\* the foregrounds pil_get_two_colors returns: with a lowered alpha, or opaque
PilForegrounds == {PilForeground, <<255, 107, 107, 255>>}

SvgForeground == StaticPalettes[1][1].s

SvgBackground == StaticPalettes[1][3].s

\* a style generator has returned res
StyleCall(call, name, o, size, fg, bg, chaos, res) ==
    /\ rng' = res.g
    /\ last' = [call |-> call,
                p |-> [name |-> name, x |-> o[1], y |-> o[2], square_size |-> size, foreground |-> fg,
                       background |-> bg, chaos_factor |-> chaos],
                res |-> res]
    /\ UNCHANGED <<req, fonts>>

\* style_function_map_pil[name](main_draw, x, y, square_size, foreground, background, chaos_factor)
CallPilStyleAlone ==
    /\ req = NoReq /\ last = NoLast
    /\ \E i \in 1..Len(ALL_POSSIBLE_STYLE_NAMES) : \E o \in StyleOrigins : \E size \in StyleSizes :
       \E chaos \in HelperChaos : \E fg \in PilForegrounds :
          StyleCall("style_function_map_pil", ALL_POSSIBLE_STYLE_NAMES[i], o, size, fg, PilBackground, chaos,
                    CallPilStyle(ALL_POSSIBLE_STYLE_NAMES[i], rng, o[1], o[2], size, fg, PilBackground, chaos))

\* style_function_map[name](group, x, y, square_size, foreground, background, chaos_factor)
CallSvgStyleAlone ==
    /\ req = NoReq /\ last = NoLast
    /\ \E i \in 1..Len(SvgStyleNames) : \E o \in StyleOrigins : \E size \in StyleSizes :
       \E chaos \in HelperChaos :
          StyleCall("style_function_map", SvgStyleNames[i], o, size, SvgForeground, SvgBackground, chaos,
                    CallSvgStyle(SvgStyleNames[i], rng, o[1], o[2], size, SvgForeground, SvgBackground,
                                 chaos))

NextStyles == CallPilStyleAlone \/ CallSvgStyleAlone

\* the outcomes of the first draws spelled out, or the random module in one of
\* its states, on a machine with any of the font files
InitStyles ==
    /\ rng \in {[s |-> 0, t |-> t] : t \in [1..MaxTape -> TapeValues]} \cup RngStates
    /\ req = NoReq
    /\ last = NoLast
    /\ fonts \in SUBSET FontFiles

SpecStyles == InitStyles /\ [][NextStyles]_vars

(***************************************************************************)
(* The humanoid generator of SVG_Character_Creator_UI.py.  The proportions *)
(* of the body parts are held in hundredths (0.4 is 40), the lengths of    *)
(* its drawing in ten-thousandths of a pixel.                              *)
(***************************************************************************)
\* the greatest number of characters the window offers (num_chars_spin)
MaxHumanoids == 10

\* a length of n pixels
Q(n) == 10000 * n

\* svgwrite.shapes.Rect(insert=(x, y), size=(w, h), fill=fill)
HumanoidRect(by, part, x, y, w, h, fill) == Op(by, part, <<x, y, x + w, y + h>>, <<fill>>)

\* svgwrite.shapes.Circle(center=(cx, cy), r=r, fill=fill), by its bounding box
HumanoidCircle(by, part, cx, cy, r, fill) == Op(by, part, <<cx - r, cy - r, cx + r, cy + r>>, <<fill>>)

\* create_head(dwg_group, x, y, size, colors), size = character_size * head_size:
\* hr is head_radius = size * 0.4, and the circle's centre is (x, y)
create_head(x, y, hr, colors) ==
    LET by == "create_head"
        eye_y == y - (hr \div 5)
    IN <<HumanoidCircle(by, "head", x, y, hr, colors.skin),
         HumanoidCircle(by, "eye", x - (2 * hr) \div 5, eye_y, hr \div 10, "white"),
         HumanoidCircle(by, "eye", x + (2 * hr) \div 5, eye_y, hr \div 10, "white"),
         HumanoidCircle(by, "pupil", x - (2 * hr) \div 5, eye_y, hr \div 20, "black"),
         HumanoidCircle(by, "pupil", x + (2 * hr) \div 5, eye_y, hr \div 20, "black"),
         HumanoidRect(by, "mouth", x - (3 * hr) \div 10, y + (3 * hr) \div 10, (3 * hr) \div 5, hr \div 10, "black")>>

create_neck(x, y, width, height, colors) ==
    <<HumanoidRect("create_neck", "neck", x - width \div 2, y, width, height, colors.skin)>>

create_torso(x, y, width, height, colors) ==
    <<HumanoidRect("create_torso", "torso", x - width \div 2, y, width, height, colors.shirt)>>

\* offset = -1 if side == 'left' else 1; x += offset * thickness / 2
SideOffset(side, thickness) == IF side = "left" THEN 0 - thickness \div 2 ELSE thickness \div 2

create_arm(x, y, length, thickness, side, colors) ==
    <<HumanoidRect("create_arm", "arm", x + SideOffset(side, thickness), y, thickness, length, colors.skin)>>

create_leg(x, y, length, thickness, side, colors) ==
    <<HumanoidRect("create_leg", "leg", x + SideOffset(side, thickness), y, thickness, length, colors.pants)>>

\* the animation generate_humanoid_svg returns
BreathingAnimation == "<animateTransform type=translate xlink:href=#upper_body />"

\* generate_humanoid_svg(dwg, x, y, size, colors, head_size, arm_length,
\* leg_length, torso_width, torso_height), x and y in pixels: the elements it
\* adds, in their order
generate_humanoid_svg(x, y, size, colors, p) ==
    LET torso_width   == 100 * size * p.torso_width
        torso_height  == 100 * size * p.torso_height
        arm_length    == 100 * size * p.arm_length
        arm_thickness == 1000 * size
        leg_length    == 100 * size * p.leg_length
        leg_thickness == 1500 * size
        neck_width    == (3 * torso_width) \div 10
        neck_height   == 1000 * size
        torso_top_y   == Q(y)
        neck_top_y    == torso_top_y - neck_height
        head_center_y == neck_top_y - neck_height
    IN create_leg(Q(x) - torso_width \div 4, torso_top_y + torso_height, leg_length, leg_thickness, "left", colors)
       \o create_leg(Q(x) + torso_width \div 4 - leg_thickness, torso_top_y + torso_height, leg_length,
                     leg_thickness, "right", colors)
       \o create_torso(Q(x), torso_top_y, torso_width, torso_height, colors)
       \o create_neck(Q(x), neck_top_y, neck_width, neck_height, colors)
       \o create_head(Q(x), head_center_y, 40 * size * p.head_size, colors)
       \o create_arm(Q(x) - torso_width \div 2, torso_top_y, arm_length, arm_thickness, "left", colors)
       \o create_arm(Q(x) + torso_width \div 2 - arm_thickness, torso_top_y, arm_length, arm_thickness,
                     "right", colors)

SkinColors == <<"#FAD02C", "#E87007", "#F2E9E4">>

ShirtColors == <<"#118AB2", "#FFD166", "#06D6A0">>

PantsColors == <<"#073B4C", "#4A4E69", "#9A8C98">>

\* int(num_humanoids ** 0.5)
IntSqrt(n) == CHOOSE k \in 0..n : k * k <= n /\ n < (k + 1) * (k + 1)

\* the grid and the canvas of the humanoid generator
humanoid_layout(character_size, num_humanoids) ==
    LET grid_cols == IntSqrt(num_humanoids)
        grid_rows == (num_humanoids + grid_cols - 1) \div grid_cols
    IN [grid_cols |-> grid_cols, grid_rows |-> grid_rows,
        padding_top |-> character_size \div 2, padding_sides |-> character_size \div 2,
        padding_bottom |-> character_size,
        svg_width |-> grid_cols * character_size + 2 * (character_size \div 2),
        svg_height |-> grid_rows * character_size + character_size \div 2 + character_size]

\* the cell <<row, col>> of the humanoid number idx, with the columns counted
\* along the rows instead
HumanoidCellByRows(lay, idx) == <<idx % lay.grid_rows, idx \div lay.grid_rows>>

\* col = idx % grid_cols; row = idx // grid_cols, as <<row, col>>
humanoid_cell_of(lay, idx) == <<idx \div lay.grid_cols, idx % lay.grid_cols>>

\* one pass of the loop over idx, from the state g: the three colours, then the
\* character at the centre of its cell
humanoid_body(p, lay, g, idx) ==
    LET by  == "generate_art_svg_string"
        cell == humanoid_cell_of(lay, idx)
        x == cell[2] * p.character_size + lay.padding_sides + p.character_size \div 2
        y == cell[1] * p.character_size + lay.padding_top + p.character_size \div 2
        colors == [skin  |-> SkinColors[ChoiceIdx(D(g, 1), 3)],
                   shirt |-> ShirtColors[ChoiceIdx(D(g, 2), 3)],
                   pants |-> PantsColors[ChoiceIdx(D(g, 3), 3)]]
    IN [ev |-> Tag(<<Drw(by, "choice skin", ChoiceIdx(D(g, 1), 3)), Drw(by, "choice shirt", ChoiceIdx(D(g, 2), 3)),
                     Drw(by, "choice pants", ChoiceIdx(D(g, 3), 3))>>
                   \o generate_humanoid_svg(x, y, p.character_size, colors, p), "humanoid", <<idx>>),
        g |-> AdvN(g, 3), cells |-> <<cell>>, animations |-> <<BreathingAnimation>>]

RECURSIVE humanoid_loop(_, _, _, _, _)
humanoid_loop(p, lay, s, lo, hi) ==
    IF hi <= lo THEN [ev |-> << >>, g |-> s.g, cells |-> << >>, animations |-> << >>]
    ELSE IF hi = lo + 1 THEN humanoid_body(p, lay, s.g, lo)
    ELSE LET left  == humanoid_loop(p, lay, s, lo, (lo + hi) \div 2)
             right == humanoid_loop(p, lay, left, (lo + hi) \div 2, hi)
         IN [ev |-> left.ev \o right.ev, g |-> right.g, cells |-> left.cells \o right.cells,
             animations |-> left.animations \o right.animations]

\* dwg.tostring() of a drawing with n groups: the opening tag, the defs, the
\* groups of the characters and the closing tag, as a sequence of pieces
DrawingToString(n) == <<"<svg>", "<defs>">> \o [i \in 1..n |-> "<g id=humanoid>"] \o <<"</svg>">>

\* doc.replace(old, new) for a document held as a sequence of pieces: every
\* piece old is replaced by the pieces new
RECURSIVE StrReplace(_, _, _)
StrReplace(doc, old, new) ==
    IF doc = << >> THEN << >>
    ELSE (IF Head(doc) = old THEN new ELSE <<Head(doc)>>) \o StrReplace(Tail(doc), old, new)

\* the animations put after the closing tag instead of before it
AppendAfterClosingTag(doc, animations) == doc \o animations

\* for animation in all_animations:
\*     svg_string = svg_string.replace('</svg>', f'{animation}</svg>')
RECURSIVE append_animations(_, _)
append_animations(doc, animations) ==
    IF animations = << >> THEN doc
    ELSE append_animations(StrReplace(doc, "</svg>", <<Head(animations), "</svg>">>), Tail(animations))

\* a return of the humanoid generator before its loop
HumanoidNoRun(status, exc, sd) ==
    [status |-> status, exc |-> exc, mode |-> sd.mode, g |-> sd.g, ev |-> << >>, cells |-> << >>,
     lay |-> humanoid_layout(0, 1), doc |-> << >>]

\* the humanoid generator from the layout on
humanoid_drawn(p, sd, lay, loop) ==
    [status |-> "ok", exc |-> "", mode |-> sd.mode, g |-> loop.g, ev |-> loop.ev, cells |-> loop.cells,
     lay |-> lay, doc |-> append_animations(DrawingToString(p.num_humanoids), loop.animations)]

humanoid_after_layout(p, sd, lay) ==
    humanoid_drawn(p, sd, lay, humanoid_loop(p, lay, [g |-> sd.g], 0, p.num_humanoids))

\* generate_art_svg_string(params) of the humanoid file, called with params = p
\* when the random module's state is g and the system's entropy is e; status
\* "none" is the return of None
humanoid_generate_art_svg_string(p, g, e) ==
    IF p.current_palette_list = << >> THEN HumanoidNoRun("none", "", svg_seed(p.seed, g, e))
    ELSE IF ListIndex(p.current_palette_list, p.palette_index).exc # ""
    THEN HumanoidNoRun("raised", ListIndex(p.current_palette_list, p.palette_index).exc, svg_seed(p.seed, g, e))
    ELSE humanoid_after_layout(p, svg_seed(p.seed, g, e), humanoid_layout(p.character_size, p.num_humanoids))

(***************************************************************************)
(* The humanoid generator called with the parameters its window collects.  *)
(***************************************************************************)
\* char_size_spin: 50 to 500
CharacterSizes == {50, 75, 150, 500}

\* the proportions the spin boxes offer: their least, their default and their
\* greatest value, in hundredths
HeadSizes == {20, 40, 100}

ArmLengths == {40, 100}

LegLengths == {50, 70, 100}

TorsoWidths == {30, 100}

TorsoHeights == {50, 80, 100}

HumanoidBase ==
    [character_size |-> 150, num_humanoids |-> 1, current_palette_list |-> SVG_DEFAULT_PALETTES_DATA,
     palette_index |-> 0, head_size |-> 40, arm_length |-> 60, leg_length |-> 70, torso_width |-> 50,
     torso_height |-> 80, seed |-> NoSeed]

HumanoidRequests ==
    {[HumanoidBase EXCEPT !.character_size = cs, !.num_humanoids = n, !.seed = sd] :
        cs \in CharacterSizes, n \in 1..MaxHumanoids, sd \in {NoSeed, IntSeed(7)}}
    \cup {[HumanoidBase EXCEPT !.num_humanoids = n, !.head_size = hs, !.arm_length = al, !.leg_length = ll,
                               !.torso_width = tw, !.torso_height = th] :
             n \in {1, 6}, hs \in HeadSizes, al \in ArmLengths, ll \in LegLengths, tw \in TorsoWidths,
             th \in TorsoHeights}
    \cup {[HumanoidBase EXCEPT !.current_palette_list = << >>],
          [HumanoidBase EXCEPT !.palette_index = Len(SVG_DEFAULT_PALETTES_DATA)]}

CallHumanoid ==
    /\ last = NoLast
    /\ \E p \in HumanoidRequests : \E e \in EntropyValues :
          Returned("humanoid_generate_art_svg_string", p, humanoid_generate_art_svg_string(p, rng, e))

InitHumanoid ==
    /\ rng \in RngStates
    /\ req = NoReq
    /\ last = NoLast
    /\ fonts = {}

SpecHumanoid == InitHumanoid /\ [][CallHumanoid]_vars

(***************************************************************************)
(* The windows of SVG_ArtGrid.py and SVG_Character_Creator_UI.py: their    *)
(* handler run_generation_and_save.  A window is the record of its widgets *)
(* and of current_palette_list; a path is a Python str, a sequence of      *)
(* one-character strings.                                                  *)
(***************************************************************************)
\* str.lower() on the characters the paths of the model hold
LowerChar(c) ==
    CASE c = "A" -> "a" [] c = "S" -> "s" [] c = "V" -> "v" [] c = "G" -> "g" [] OTHER -> c

lower(s) == [i \in 1..Len(s) |-> LowerChar(s[i])]

endswith(s, suffix) ==
    Len(s) >= Len(suffix) /\ SubSeq(s, Len(s) - Len(suffix) + 1, Len(s)) = suffix

DotSvg == <<".", "s", "v", "g">>

\* if not output_path.lower().endswith(".svg"): output_path += ".svg"
with_svg_suffix(output_path) ==
    IF endswith(lower(output_path), DotSvg) THEN output_path ELSE output_path \o DotSvg

\* the text of the seed field: "blank" is a text that strip() leaves empty,
\* "digits" a text int() reads as v, "text" one int() refuses
BlankSeedText == [kind |-> "blank", v |-> 0]

\* seed_text = self.seed_edit.text().strip() and the try of int(seed_text):
\* [seed, seed_edit, warned]
seed_of_text(seed_edit) ==
    IF seed_edit.kind = "blank" THEN [seed |-> NoSeed, seed_edit |-> seed_edit, warned |-> FALSE]
    ELSE IF seed_edit.kind = "digits" THEN [seed |-> IntSeed(seed_edit.v), seed_edit |-> seed_edit, warned |-> FALSE]
    ELSE [seed |-> NoSeed, seed_edit |-> BlankSeedText, warned |-> TRUE]

\* the two tests of the palettes in get_generation_parameters: "" when both
\* pass, else the message shown before None is returned
palette_error(w) ==
    IF w.current_palette_list = << >> THEN "No valid color palettes are loaded"
    ELSE IF ~(0 <= w.palette_index_spin /\ w.palette_index_spin < Len(w.current_palette_list))
    THEN "Invalid palette index"
    ELSE ""

\* get_generation_parameters of SVG_ArtGrid.py on the window w: [params, ok, w],
\* ok = FALSE when it returns None; w is the window it leaves
svg_get_generation_parameters(w) ==
    LET selected_styles == IF w.checked = << >> THEN ALL_POSSIBLE_STYLE_NAMES ELSE w.checked
        w1 == [w EXCEPT !.checked = selected_styles]
        sd == seed_of_text(w.seed_edit)
    IN IF palette_error(w) # "" THEN [ok |-> FALSE, params |-> << >>, w |-> w1]
       ELSE [ok |-> TRUE, w |-> [w1 EXCEPT !.seed_edit = sd.seed_edit],
             params |-> [rows |-> w.rows_spin, cols |-> w.cols_spin, square_size |-> w.square_size_spin,
                         current_palette_list |-> w.current_palette_list,
                         palette_index |-> w.palette_index_spin, block_styles |-> selected_styles,
                         big_block_enabled |-> w.big_block_check, big_block_size |-> w.big_block_size_combo,
                         chaos_factor |-> w.chaos_factor_spin, seed |-> sd.seed]]

\* get_generation_parameters of SVG_Character_Creator_UI.py
humanoid_get_generation_parameters(w) ==
    LET sd == seed_of_text(w.seed_edit)
    IN IF palette_error(w) # "" THEN [ok |-> FALSE, params |-> << >>, w |-> w]
       ELSE [ok |-> TRUE, w |-> [w EXCEPT !.seed_edit = sd.seed_edit],
             params |-> [character_size |-> w.char_size_spin, num_humanoids |-> w.num_chars_spin,
                         current_palette_list |-> w.current_palette_list,
                         palette_index |-> w.palette_index_spin, head_size |-> w.head_size_spin,
                         arm_length |-> w.arm_length_spin, leg_length |-> w.leg_length_spin,
                         torso_width |-> w.torso_width_spin, torso_height |-> w.torso_height_spin,
                         seed |-> sd.seed]]

get_generation_parameters(w) ==
    IF w.window = "art_grid" THEN svg_get_generation_parameters(w) ELSE humanoid_get_generation_parameters(w)

\* the generator of the window's file
window_generate(w, params, g, e) ==
    IF w.window = "art_grid" THEN generate_art_svg_string(params, g, e)
    ELSE humanoid_generate_art_svg_string(params, g, e)

\* svg_data_str: what the generator of the window's file returned
SvgDataStr(w, res) == IF w.window = "art_grid" THEN res.ev ELSE res.doc

\* the handler goes on after "if not output_path" to the cancelled path too
GenerateOnCancel(output_path) == "generate"

\* if not output_path: ... return
after_save_dialog(output_path) == IF output_path = << >> THEN "done" ELSE "generate"

\* svg_data_str = generate_art_svg_string(params) in the try: "write" when the
\* with statement is reached, "none" after the return under "is None",
\* "except" in the handler of Exception
after_generation(res) ==
    IF res.status = "raised" THEN "except" ELSE IF res.status = "none" THEN "none" ELSE "write"

\* the windows the model clicks in.  The handlers of a window leave a list of
\* palettes that is not empty and an index inside it (update_palette_display
\* falls back to the defaults and sets the range of the spin box); the empty
\* list and the index at its end are states of the attributes that only code
\* outside the handlers sets, kept to run the two tests of
\* get_generation_parameters
WindowPaletteLists == {SVG_DEFAULT_PALETTES_DATA, <<NumberPalette>>, << >>}

WindowPaletteIndexes == {0, Len(SVG_DEFAULT_PALETTES_DATA)}

SeedTexts == {BlankSeedText, [kind |-> "digits", v |-> 7], [kind |-> "text", v |-> 0]}

ArtGridWindows ==
    {[window |-> "art_grid", checked |-> ch, current_palette_list |-> pl, palette_index_spin |-> i,
      seed_edit |-> st, rows_spin |-> 2, cols_spin |-> 2, square_size_spin |-> 10, big_block_check |-> TRUE,
      big_block_size_combo |-> 2, chaos_factor_spin |-> 30] :
        ch \in {<< >>, <<"circle", "cross">>}, pl \in WindowPaletteLists, i \in WindowPaletteIndexes,
        st \in SeedTexts}

HumanoidWindows ==
    {[window |-> "character", current_palette_list |-> pl, palette_index_spin |-> i, seed_edit |-> st,
      char_size_spin |-> 150, num_chars_spin |-> n, head_size_spin |-> 40, arm_length_spin |-> 60,
      leg_length_spin |-> 70, torso_width_spin |-> 50, torso_height_spin |-> 80] :
        pl \in WindowPaletteLists, i \in WindowPaletteIndexes, st \in SeedTexts, n \in {1, 3}}

\* what QFileDialog.getSaveFileName returns as the path: '' when the dialog is
\* cancelled
DialogAnswers == {<< >>, <<"a">>, <<"a", ".", "s", "v", "g">>, <<"A", ".", "S", "V", "G">>}

\* req while the handler runs: the window w, the position pc of the handler
\* ("collect", "dialog", "generate", "write", "done"), the params collected,
\* the output_path, the files written, and for the properties the window as
\* clicked, the state of the random module at the click and the steps done
HandlerRuns == req # NoReq /\ req.backend = "gui"

\* the button or the menu entry triggers run_generation_and_save
ClickGenerate ==
    /\ req = NoReq \/ (HandlerRuns /\ req.pc = "done")
    /\ \E w \in ArtGridWindows \cup HumanoidWindows :
          req' = [backend |-> "gui", w |-> w, pc |-> "collect", params |-> << >>, output_path |-> << >>,
                  written |-> << >>, outcome |-> "", clicked |-> w, rng_at_click |-> rng, steps |-> << >>]
    /\ last' = NoLast
    /\ UNCHANGED <<rng, fonts>>

\* params = self.get_generation_parameters(); if not params: ... return
CollectParameters ==
    /\ HandlerRuns /\ req.pc = "collect"
    /\ req' = [req EXCEPT !.w = get_generation_parameters(req.w).w,
                          !.params = get_generation_parameters(req.w).params,
                          !.pc = IF get_generation_parameters(req.w).ok THEN "dialog" ELSE "done",
                          !.outcome = IF get_generation_parameters(req.w).ok THEN "" ELSE "parameter errors",
                          !.steps = Append(@, "collect")]
    /\ UNCHANGED <<rng, last, fonts>>

\* the save dialog returns
AnswerSaveDialog ==
    /\ HandlerRuns /\ req.pc = "dialog"
    /\ \E path \in DialogAnswers :
          req' = [req EXCEPT !.output_path = IF path = << >> THEN path ELSE with_svg_suffix(path),
                             !.pc = after_save_dialog(path),
                             !.outcome = IF after_save_dialog(path) = "done" THEN "save cancelled" ELSE "",
                             !.steps = Append(@, "dialog")]
    /\ UNCHANGED <<rng, last, fonts>>

\* the generator has run inside the try: res is its return or its raise
Generated_in_handler(res) ==
    /\ rng' = res.g
    /\ last' = [call |-> "run_generation_and_save", p |-> req.params, res |-> res]
    /\ req' = [req EXCEPT !.pc = IF after_generation(res) = "write" THEN "write" ELSE "done",
                          !.outcome = IF after_generation(res) = "write" THEN ""
                                      ELSE IF after_generation(res) = "none" THEN "no data" ELSE "error",
                          !.steps = Append(@, "generate")]
    /\ UNCHANGED fonts

RunGenerator ==
    /\ HandlerRuns /\ req.pc = "generate"
    /\ \E e \in EntropyValues : Generated_in_handler(window_generate(req.w, req.params, rng, e))

\* with open(output_path, "w", encoding="utf-8") as f: f.write(svg_data_str);
\* open raises OSError on a path that cannot be written, which the handler of
\* Exception catches
WriteOutput ==
    /\ HandlerRuns /\ req.pc = "write"
    /\ \E opened \in BOOLEAN :
          req' = [req EXCEPT !.written = IF opened
                                         THEN <<[path |-> req.output_path, data |-> SvgDataStr(req.w, last.res)]>>
                                         ELSE << >>,
                             !.pc = "done",
                             !.outcome = IF opened THEN "saved" ELSE "error",
                             !.steps = Append(@, "write")]
    /\ UNCHANGED <<rng, last, fonts>>

InitSave ==
    /\ rng \in {EntropyState(e) : e \in EntropyValues}
    /\ req = NoReq
    /\ last = NoLast
    /\ fonts = {}

NextSave == ClickGenerate \/ CollectParameters \/ AnswerSaveDialog \/ RunGenerator \/ WriteOutput

SpecSave == InitSave /\ [][NextSave]_vars

(***************************************************************************)
(* What the caller observes of the call recorded in last.                  *)
(***************************************************************************)
IsPil == last.call = "generate_art_image_pil"

IsSvg == last.call = "generate_art_svg_string"

Generated == IsPil \/ IsSvg

SeedOf == IF IsPil THEN last.p.seed_value ELSE last.p.seed

NonNegativeIntSeed == SeedOf.kind = "int" /\ SeedOf.v >= 0

RowsOf == IF IsPil THEN last.p.num_rows ELSE last.p.rows

ColsOf == IF IsPil THEN last.p.num_cols ELSE last.p.cols

MultiplierOf == IF IsPil THEN last.p.big_block_size_multiplier ELSE last.p.big_block_size

PalettesOf == IF IsPil THEN PIL_DEFAULT_PALETTES_DATA ELSE last.p.current_palette_list

\* the generator of the call recorded in last, called with the parameters p
\* from the state r of the random module, with the entropy e
Rerun(p, r, e) == IF IsPil THEN generate_art_image_pil(p, r, e) ELSE generate_art_svg_string(p, r, e)

Events == last.res.ev

(***************************************************************************)
(* C1  Determinism.                                                        *)
(***************************************************************************)
\* C1: with a fixed non-negative integer seed and fixed parameters a generator
\* makes the same draws and issues the same drawing operations, in the same
\* order and with the same arguments, and leaves the random module in the same
\* state, whatever state earlier calls left the random module in and whatever
\* the system's entropy is.
C1_SeededRunsRepeat ==
    (Generated /\ NonNegativeIntSeed) =>
        \A r \in RngStates : \A e \in EntropyValues : Rerun(last.p, r, e) = last.res

\* a raster run with a non-negative seed has returned an image: it made draws
\* and issued drawing operations
C1_SeededRunSeen ==
    /\ IsPil /\ NonNegativeIntSeed
    /\ last.res.status = "ok" /\ last.res.mode = "seeded"
    /\ \E i \in 1..Len(Events) : Events[i].t = "draw"
    /\ \E i \in 1..Len(Events) : Events[i].t = "op"
    /\ rng # SeedState(SeedOf.v)

(***************************************************************************)
(* C2  Palette clamp.                                                      *)
(***************************************************************************)
IndexOutsideRange == ~(0 <= last.p.palette_index /\ last.p.palette_index < Len(PalettesOf))

\* C2: for every palette index outside [0, len(palettes) - 1] the generation
\* uses palette 0 and does not raise, in the raster and in the vector generator.
C2_PaletteClamp ==
    (Generated /\ PalettesOf # << >> /\ IndexOutsideRange) =>
        (last.res.status = "ok" /\ last.res.palette = 0)

\* the vector generator has raised IndexError for the index len(palettes)
C2_IndexErrorSeen ==
    /\ IsSvg /\ last.p.palette_index = Len(PalettesOf)
    /\ last.res.status = "raised" /\ last.res.exc = "IndexError"

(***************************************************************************)
(* C3  Style fallback.                                                     *)
(***************************************************************************)
\* the names the call was given, stripped
RequestedNames ==
    IF IsPil THEN [i \in 1..Len(last.p.block_styles_str) |-> last.p.block_styles_str[i].name]
    ELSE last.p.block_styles

NoKnownStyle == \A i \in 1..Len(RequestedNames) : ~InSeq(RequestedNames[i], ALL_POSSIBLE_STYLE_NAMES)

\* the parameters p, asking for the full enumeration in its canonical order
WithAllStyles(p) ==
    IF IsPil THEN [p EXCEPT !.block_styles_str = AllStylesString]
    ELSE [p EXCEPT !.block_styles = ALL_POSSIBLE_STYLE_NAMES]

\* C3: with a fixed seed, a style request that holds no name of the enumeration
\* (an unknown name, no name, a blank string) gives exactly the draws, the
\* drawing operations and the final state of the random module that a request
\* for the full enumeration gives.
C3_StyleFallback ==
    (Generated /\ NonNegativeIntSeed /\ NoKnownStyle) =>
        \A r \in RngStates : Rerun(WithAllStyles(last.p), r, 0) = last.res

\* a raster run asked for "not_a_style" alone has returned an image drawn with
\* the twelve styles active
C3_UnknownStyleSeen ==
    /\ IsPil /\ NonNegativeIntSeed
    /\ last.p.block_styles_str = <<Item("not_a_style")>>
    /\ last.res.status = "ok" /\ last.res.active = ALL_POSSIBLE_STYLE_NAMES
    /\ \E i \in 1..Len(Events) : Events[i].ph = "style" /\ Events[i].a[1] > 1

(***************************************************************************)
(* C4  Big-block skip.                                                     *)
(***************************************************************************)
BigBlockPhases == {"bb_offset", "bb_colors", "bb_style", "bb_shape"}

TooSmallForBigBlock == RowsOf < MultiplierOf \/ ColsOf < MultiplierOf

\* C4: with big blocks enabled on a grid with fewer rows or fewer columns than
\* the multiplier, the generation returns, no big block is drawn, nothing is
\* drawn or drawn from the random module for a big block, and the draws, the
\* drawing operations and the final state of the random module are those of the
\* same call with big blocks disabled.
C4_BigBlockSkip ==
    (Generated /\ NonNegativeIntSeed /\ last.p.big_block_enabled /\ TooSmallForBigBlock) =>
        /\ last.res.status = "ok"
        /\ last.res.blocks = << >>
        /\ \A i \in 1..Len(Events) : Events[i].ph \notin BigBlockPhases
        /\ \A r \in RngStates :
              LET off == Rerun([last.p EXCEPT !.big_block_enabled = FALSE], r, 0)
              IN off.status = "ok" /\ off.ev = Events /\ off.g = last.res.g

\* a raster run of a 2 x 2 grid with two big blocks of multiplier 3 has
\* returned an image, after one message for each block
C4_SkipSeen ==
    /\ IsPil /\ NonNegativeIntSeed /\ last.p.big_block_enabled
    /\ RowsOf = 2 /\ ColsOf = 2 /\ MultiplierOf = 3 /\ last.p.num_big_blocks = 2
    /\ last.res.status = "ok" /\ last.res.diag = 2 /\ Len(Events) > 0

(***************************************************************************)
(* C5  The two colours of a pair differ.                                   *)
(***************************************************************************)
\* '#' and three or six hex digits
IsHexColor(e) ==
    /\ e.str /\ Len(e.s) \in {4, 7} /\ e.s[1] = "#"
    /\ \A i \in 2..Len(e.s) : IsHexChar(e.s[i])

\* the <<r, g, b>> of a hex colour
HexColorRgb(e) == ParseRgb(Expand3(LStripHash(e.s))).v

ValidColors(palette) == SelectSeqIdx(palette, IsHexColor)

\* the colours, as <<r, g, b>>, a palette holds
RgbsOf(palette) == {HexColorRgb(ValidColors(palette)[i]) : i \in 1..Len(ValidColors(palette))}

PairCall == last.call \in {"pil_get_two_colors", "get_two_colors"}

\* the exception the call left with, "" when it returned: get_two_colors has
\* no statement that can raise
PairExc == IF last.call = "pil_get_two_colors" THEN last.res.exc ELSE ""

\* the <<r, g, b>> of a colour of the pair returned: the raster pair holds
\* tuples, the vector pair strings
PairRgb(c) == IF last.call = "pil_get_two_colors" THEN SubSeq(c, 1, 3) ELSE HexColorRgb(Str(c))

\* C5: for a palette that holds at least two valid hex colours, every chaos
\* factor and every outcome of the draws, the pair that pil_get_two_colors or
\* get_two_colors returns has a foreground whose red, green and blue differ
\* from the background's.
C5_PairDistinct ==
    (PairCall /\ PairExc = "" /\ Cardinality(RgbsOf(last.p.color_palette)) >= 2) =>
        PairRgb(last.res.foreground) # PairRgb(last.res.background)

\* pil_get_two_colors has returned white on white for the palette
\* #FFF, #FFFFFF, #000000
C5_SameColorSeen ==
    /\ last.call = "pil_get_two_colors" /\ last.res.exc = ""
    /\ RgbsOf(last.p.color_palette) = {<<255, 255, 255>>, <<0, 0, 0>>}
    /\ SubSeq(last.res.foreground, 1, 3) = <<255, 255, 255>>
    /\ SubSeq(last.res.background, 1, 3) = <<255, 255, 255>>

(***************************************************************************)
(* C6  The boundary of the background derivation.                          *)
(***************************************************************************)
BackgroundCall == last.call \in {"pil_create_background_colors", "create_background_colors"}

\* the pair the claim asks for: the fallback with fewer than two valid colours,
\* the mix of the first two valid colours otherwise
BackgroundAsked(valid) ==
    IF Len(valid) < 2
    THEN (IF last.call = "pil_create_background_colors" THEN pil_bg_fallback ELSE svg_bg_fallback)
    ELSE (IF last.call = "pil_create_background_colors"
          THEN pil_bg_mixed(MixBackground(HexColorRgb(valid[1]), HexColorRgb(valid[2])))
          ELSE svg_bg_mixed(MixBackground(HexColorRgb(valid[1]), HexColorRgb(valid[2]))))

\* C6: pil_create_background_colors and create_background_colors return the
\* fixed pair #EEEEEE, #DDDDDD when the palette holds fewer than two valid hex
\* colours, and otherwise the pair derived from the first two valid colours of
\* the palette, invalid entries skipped.
C6_BackgroundBoundary ==
    BackgroundCall => last.res = BackgroundAsked(ValidColors(last.p.color_palette))

\* pil_create_background_colors has derived a pair from a palette with one
\* valid colour, "#12" counted as black
C6_DerivedFromInvalidSeen ==
    /\ last.call = "pil_create_background_colors"
    /\ Len(ValidColors(last.p.color_palette)) = 1
    /\ ~last.res.fallback

(***************************************************************************)
(* C7  Seed handling.                                                      *)
(***************************************************************************)
\* C7: a generator resets the random module to a state the seed determines
\* exactly when the seed is a non-negative integer; with any other seed (none,
\* a negative integer, a string) it reseeds the random module from the system's
\* entropy and runs.
C7_SeedHandling ==
    Generated =>
        IF NonNegativeIntSeed THEN last.res.mode = "seeded"
        ELSE last.res.mode = "entropy" /\ last.res.exc # "TypeError"

\* the vector generator has run from the state random.seed(-1) gives
C7_NegativeSeedSeeded ==
    /\ IsSvg /\ SeedOf = IntSeed(0 - 1)
    /\ last.res.status = "ok" /\ last.res.mode = "seeded"
    /\ \A r \in RngStates : \A e \in EntropyValues : Rerun(last.p, r, e) = last.res

(***************************************************************************)
(* C8  Entries that cannot be parsed.                                      *)
(***************************************************************************)
\* C8: whatever entries a palette holds, pil_get_two_colors and get_two_colors
\* return without raising, and the foreground and the background they return
\* are never an entry that is no hex colour.
C8_UnparseableNeverFatal ==
    PairCall =>
        /\ PairExc = ""
        /\ IF last.call = "pil_get_two_colors"
           THEN /\ last.res.fg_hex # NonStr => IsHexColor(last.res.fg_hex)
                /\ last.res.bg_hex # NonStr => IsHexColor(last.res.bg_hex)
           ELSE IsHexColor(Str(last.res.foreground)) /\ IsHexColor(Str(last.res.background))

\* pil_get_two_colors has raised ValueError on the entry "#GGGGGG"
C8_ValueErrorSeen ==
    /\ last.call = "pil_get_two_colors"
    /\ last.p.color_palette = <<G6, HexStr(<<"F","F","0","0","0","0">>)>>
    /\ last.res.exc = "ValueError" /\ last.res.bg_hex = G6

(***************************************************************************)
(* C9  The order of the draws.                                             *)
(***************************************************************************)
CellPhases == <<"colors", "style", "shape">>

\* the place of the step an event belongs to in the order of the claim: the
\* background, then the cells row after row, each with its colours, the choice
\* of its style and its shape, then the big blocks
StepRank(e) ==
    IF e.ph = "background" THEN 0
    ELSE IF InSeq(e.ph, CellPhases)
    THEN 1 + 3 * (e.cell[1] * ColsOf + e.cell[2]) + (CHOOSE k \in 1..3 : CellPhases[k] = e.ph) - 1
    ELSE 1 + 3 * RowsOf * ColsOf

\* the positions in Events of the events of a step
StepOf(ph, cell) == {i \in 1..Len(Events) : Events[i].ph = ph /\ Events[i].cell = cell}

DrawsIn(S) == {i \in S : Events[i].t = "draw"}

First(S) == CHOOSE i \in S : \A j \in S : i <= j

\* a drawing operation that fills the square of a cell
FillsCell(e, cell) ==
    /\ e.t = "op"
    /\ e.a[1] = P(cell[2] * last.p.square_size) /\ e.a[2] = P(cell[1] * last.p.square_size)
    /\ IF IsPil THEN e.a[3] = e.a[1] + P(last.p.square_size) /\ e.a[4] = e.a[2] + P(last.p.square_size)
       ELSE e.a[3] = P(last.p.square_size) /\ e.a[4] = P(last.p.square_size)

\* C9: in a run that returns, the draws and the drawing operations come cell
\* by cell in row-major order, and within a cell the draws of the colour pair
\* come first, then the one draw that chooses the style, then the draws and the
\* operations of that style, which start by filling the cell's own square; no
\* draw of a cell falls among those of another cell, and every draw the run
\* took from the random module after the seeding is one of these.
C9_DrawOrder ==
    (Generated /\ last.res.status = "ok") =>
        /\ \A i \in 1..(Len(Events) - 1) : StepRank(Events[i]) <= StepRank(Events[i + 1])
        /\ \A r \in 0..(RowsOf - 1) : \A c \in 0..(ColsOf - 1) :
              /\ DrawsIn(StepOf("colors", <<r, c>>)) = StepOf("colors", <<r, c>>)
              /\ Cardinality(StepOf("style", <<r, c>>)) = 1
              /\ DrawsIn(StepOf("style", <<r, c>>)) = StepOf("style", <<r, c>>)
              /\ \A i \in StepOf("style", <<r, c>>) : Events[i].n = "choice"
              /\ StepOf("shape", <<r, c>>) # {}
              /\ FillsCell(Events[First(StepOf("shape", <<r, c>>))], <<r, c>>)
        /\ last.res.mode = "seeded" =>
              AdvN(SeedState(SeedOf.v), Cardinality(DrawsIn(1..Len(Events)))) = last.res.g

\* a raster run of a grid of 2 rows and 3 columns has returned: its last cell
\* <<1, 2>> drew its colours, then chose its style, then drew from the random
\* module inside the style
C9_OrderSeen ==
    /\ IsPil /\ last.res.status = "ok" /\ last.res.mode = "seeded"
    /\ RowsOf = 2 /\ ColsOf = 3
    /\ Cardinality(StepOf("colors", <<1, 2>>)) >= 2
    /\ Cardinality(StepOf("style", <<1, 2>>)) = 1
    /\ DrawsIn(StepOf("shape", <<1, 2>>)) # {}

(***************************************************************************)
(* C10  Big blocks stay in the canvas.                                     *)
(***************************************************************************)
\* the first drawing operation of the big block k
BigBlockFill(k) == Events[First({i \in StepOf("bb_shape", <<k>>) : Events[i].t = "op"})]

\* C10: every big block drawn has its column in 0..cols - multiplier and its
\* row in 0..rows - multiplier, these are the two offsets the run drew for it,
\* and the square of side multiplier * square_size that the block fills lies
\* inside the canvas of cols * square_size by rows * square_size.
C10_BigBlockInCanvas ==
    (Generated /\ last.res.status = "ok") =>
        /\ last.res.width = ColsOf * last.p.square_size
        /\ last.res.height = RowsOf * last.p.square_size
        /\ \A k \in 1..Len(last.res.blocks) :
              LET b == last.res.blocks[k]
                  o == StepOf("bb_offset", <<k>>)
              IN /\ Cardinality(o) = 2
                 /\ Events[First(o)].a[1] = b.col /\ Events[First(o) + 1].a[1] = b.row
                 /\ 0 <= b.col /\ b.col <= ColsOf - MultiplierOf
                 /\ 0 <= b.row /\ b.row <= RowsOf - MultiplierOf
                 /\ b.size = MultiplierOf * last.p.square_size
                 /\ BigBlockFill(k).a[1] = P(b.x) /\ BigBlockFill(k).a[2] = P(b.y)
                 /\ 0 <= b.x /\ b.x + b.size <= last.res.width
                 /\ 0 <= b.y /\ b.y + b.size <= last.res.height

\* a raster run of a grid of 3 columns has drawn a big block of multiplier 2
\* at the last column it can start at
C10_EdgeBlockSeen ==
    /\ IsPil /\ last.res.status = "ok" /\ ColsOf = 3 /\ MultiplierOf = 2
    /\ \E k \in 1..Len(last.res.blocks) :
          last.res.blocks[k].col = 1 /\ last.res.blocks[k].x + last.res.blocks[k].size = last.res.width

(***************************************************************************)
(* C11  The big blocks are laid over the finished grid.                    *)
(***************************************************************************)
\* every position of S comes before every position of T
Before(S, T) == \A i \in S : \A j \in T : i < j

\* a drawing operation of the raster generator that fills the square of the
\* big block b
FillsBlock(e, b) ==
    /\ e.t = "op"
    /\ e.a[1] = P(b.x) /\ e.a[2] = P(b.y)
    /\ e.a[3] = P(b.x + b.size) /\ e.a[4] = P(b.y + b.size)

\* the cells whose style has drawn
CellsDrawn == {Events[i].cell : i \in {j \in 1..Len(Events) : Events[j].ph = "shape"}}

\* C11: a raster run with big blocks enabled on a grid of at least multiplier
\* rows and multiplier columns draws exactly num_big_blocks big blocks and
\* skips none; each block draws its column, then its row, then its colour
\* pair, then chooses its style with one draw, then runs that style on the
\* square of side multiplier * square_size at the offset drawn; the blocks
\* come one after the other, and nothing of a big block comes before the last
\* event of the last of the rows * cols cells.
C11_BigBlockOverlay ==
    (IsPil /\ last.res.status = "ok" /\ last.p.big_block_enabled /\ ~TooSmallForBigBlock) =>
        /\ Len(last.res.blocks) = last.p.num_big_blocks
        /\ last.res.diag = 0
        /\ \A i \in 1..Len(Events) :
              Events[i].ph \in BigBlockPhases => Events[i].cell[1] \in 1..last.p.num_big_blocks
        /\ \A k \in 1..last.p.num_big_blocks :
              LET b == last.res.blocks[k]
                  o == StepOf("bb_offset", <<k>>)
                  c == StepOf("bb_colors", <<k>>)
                  s == StepOf("bb_style", <<k>>)
                  h == StepOf("bb_shape", <<k>>)
              IN /\ Cardinality(o) = 2 /\ DrawsIn(o) = o
                 /\ \A i \in o : Events[i].n = "randint"
                 /\ Events[First(o)].a[1] = b.col /\ Events[First(o) + 1].a[1] = b.row
                 /\ c # {} /\ DrawsIn(c) = c
                 /\ Cardinality(s) = 1 /\ DrawsIn(s) = s
                 /\ \A i \in s : Events[i].n = "choice"
                 /\ h # {} /\ FillsBlock(Events[First(h)], b)
                 /\ b.size = last.p.big_block_size_multiplier * last.p.square_size
                 /\ Before(o, c) /\ Before(c, s) /\ Before(s, h)
                 /\ k > 1 => Before(StepOf("bb_shape", <<k - 1>>), o)
        /\ Cardinality(CellsDrawn) = RowsOf * ColsOf
        /\ \A i \in 1..(Len(Events) - 1) :
              Events[i].ph \in BigBlockPhases => Events[i + 1].ph \in BigBlockPhases

\* a raster run of a 3 x 3 grid has drawn two big blocks of multiplier 2 over
\* its nine cells
C11_TwoBlocksSeen ==
    /\ IsPil /\ last.res.status = "ok" /\ last.p.big_block_enabled
    /\ RowsOf = 3 /\ ColsOf = 3 /\ MultiplierOf = 2 /\ last.p.num_big_blocks = 2
    /\ Len(last.res.blocks) = 2
    /\ Cardinality(CellsDrawn) = 9
    /\ StepOf("bb_shape", <<2>>) # {}

(***************************************************************************)
(* C12  A style fills its square with the background first.                *)
(***************************************************************************)
IsPilStyle == last.call = "style_function_map_pil"

IsSvgStyle == last.call = "style_function_map"

StyleEvents == last.res.ev

\* C12: each of the twelve style generators of the raster file and of the
\* vector file issues, before any draw from the random module and before any
\* other drawing operation, one fill of the whole square of side square_size
\* at (x, y) in the background colour it was given, and goes on after it.
C12_BackgroundFirst ==
    (IsPilStyle \/ IsSvgStyle) =>
        /\ Len(StyleEvents) >= 2
        /\ StyleEvents[1].t = "op"
        /\ StyleEvents[1].a[1] = P(last.p.x) /\ StyleEvents[1].a[2] = P(last.p.y)
        /\ IsPilStyle =>
              /\ StyleEvents[1].n = "rectangle"
              /\ StyleEvents[1].a[3] = P(last.p.x + last.p.square_size)
              /\ StyleEvents[1].a[4] = P(last.p.y + last.p.square_size)
              /\ StyleEvents[1].col = last.p.background
        /\ IsSvgStyle =>
              /\ StyleEvents[1].n = "rect"
              /\ StyleEvents[1].a[3] = P(last.p.square_size)
              /\ StyleEvents[1].a[4] = P(last.p.square_size)
              /\ StyleEvents[1].col = <<last.p.background, NoOpacity>>

\* the vector wavy_lines style, called on the square of side 15 at (20, 10),
\* has filled the square, then drawn from the random module, then drawn a path
C12_FillThenDrawSeen ==
    /\ IsSvgStyle /\ last.p.name = "wavy_lines" /\ last.p.x = 20 /\ last.p.square_size = 15
    /\ StyleEvents[1].n = "rect" /\ StyleEvents[1].col[1] = SvgBackground
    /\ StyleEvents[2].t = "draw"
    /\ \E i \in 3..Len(StyleEvents) : StyleEvents[i].t = "op" /\ StyleEvents[i].n = "path"

(***************************************************************************)
(* C13  The active styles as a set.                                        *)
(***************************************************************************)
\* the members of the enumeration among the names, as a set; the whole
\* enumeration when there is none
StyleSetOf(names) ==
    LET known == {names[i] : i \in {j \in 1..Len(names) : InSeq(names[j], ALL_POSSIBLE_STYLE_NAMES)}}
    IN IF known = {} THEN {ALL_POSSIBLE_STYLE_NAMES[i] : i \in 1..Len(ALL_POSSIBLE_STYLE_NAMES)} ELSE known

\* the requests of the same generator that differ from p in the styles alone
\* and ask for the same set of styles
SameStyleSet(p) ==
    IF IsPil
    THEN {[p EXCEPT !.block_styles_str = st] :
             st \in {s \in PilStyleStrings :
                        StyleSetOf([i \in 1..Len(s) |-> s[i].name]) = StyleSetOf(RequestedNames)}}
    ELSE {[p EXCEPT !.block_styles = st] :
             st \in {s \in SvgStyleLists : StyleSetOf(s) = StyleSetOf(RequestedNames)}}

\* C13: the styles a run chooses from hold each requested member of the
\* enumeration exactly once, and with a fixed seed two requests for the same
\* set of styles, whatever the order and the repetitions of the names, give
\* the same draws and the same drawing operations.
C13_StyleSetOnly ==
    (Generated /\ NonNegativeIntSeed /\ last.res.status = "ok") =>
        /\ \A i, j \in 1..Len(last.res.active) : last.res.active[i] = last.res.active[j] => i = j
        /\ \A q \in SameStyleSet(last.p) : Rerun(q, rng, 0).ev = Events

\* a raster run asked for "stripes,dots,cross,circle" has returned an image
\* that the request "circle,cross,dots,stripes" with the same seed does not give
C13_OrderMattersSeen ==
    /\ IsPil /\ NonNegativeIntSeed /\ last.res.status = "ok"
    /\ last.p.block_styles_str = <<Item("stripes"), Item("dots"), Item("cross"), Item("circle")>>
    /\ last.res.active = <<"stripes", "dots", "cross", "circle">>
    /\ Rerun([last.p EXCEPT !.block_styles_str =
                 <<Item("circle"), Item("cross"), Item("dots"), Item("stripes")>>], rng, 0).ev # Events

(***************************************************************************)
(* C14  The colour pair of a palette without colours.                      *)
(***************************************************************************)
\* C14: for a palette that is empty or holds no valid hex colour,
\* pil_get_two_colors and get_two_colors return without raising, with the
\* foreground #333333 = (51, 51, 51) and the background #CCCCCC = (204, 204, 204).
C14_NoColorFallback ==
    (PairCall /\ ValidColors(last.p.color_palette) = << >>) =>
        /\ PairExc = ""
        /\ IF last.call = "pil_get_two_colors"
           THEN /\ SubSeq(last.res.foreground, 1, 3) = <<51, 51, 51>>
                /\ SubSeq(last.res.background, 1, 3) = <<204, 204, 204>>
           ELSE /\ last.res.foreground = SvgDefaultFg
                /\ last.res.background = SvgDefaultBg

\* get_two_colors has returned the entry "#GGGGGG" as the foreground of a
\* palette that holds nothing else
C14_NonHexForegroundSeen ==
    /\ last.call = "get_two_colors" /\ last.p.color_palette = <<G6>>
    /\ last.res.foreground = G6.s /\ last.res.background = SvgDefaultBg

(***************************************************************************)
(* C15  The alpha of a raster colour pair.                                 *)
(***************************************************************************)
\* C15: whatever the palette, the chaos factor in [0, 1] and the outcomes of
\* the draws, a pair that pil_get_two_colors returns has a background of
\* alpha 255 and a foreground of alpha 255 or of an integer alpha from 150 to
\* 240; the alpha is reduced only when the first draw of the call, the one
\* that gates it, is below 0.5 * chaos_factor.
C15_AlphaRange ==
    (last.call = "pil_get_two_colors" /\ last.res.exc = "") =>
        /\ last.res.background[4] = 255
        /\ last.res.foreground[4] = 255 \/ last.res.foreground[4] \in 150..240
        /\ last.res.ev[1].by = "get_random_alpha" /\ last.res.ev[1].n = "random"
        /\ last.res.foreground[4] # 255 => Below(last.res.ev[1].a[1], last.p.chaos_factor, 200)
        /\ last.p.chaos_factor = 0 => last.res.foreground[4] = 255

\* pil_get_two_colors has returned a foreground of alpha 150, the least, for
\* the chaos factor 0.5 after a gating draw of 0.0
C15_ReducedAlphaSeen ==
    /\ last.call = "pil_get_two_colors" /\ last.res.exc = ""
    /\ last.p.chaos_factor = 50 /\ last.res.ev[1].a[1] = 0
    /\ last.res.foreground[4] = 150 /\ last.res.background[4] = 255
    /\ Len(last.p.color_palette) >= 2

(***************************************************************************)
(* C16  The fonts of the letter block.                                     *)
(***************************************************************************)
LetterBlockCall == IsPilStyle /\ last.p.name = "letter_block"

\* the text operations of the call
TextOps == {i \in 1..Len(StyleEvents) : StyleEvents[i].t = "op" /\ StyleEvents[i].by = "draw_pil_letter_block"
                                        /\ StyleEvents[i].n \notin {"rectangle", "paste"}}

CircleOps == {i \in 1..Len(StyleEvents) : StyleEvents[i].t = "op" /\ StyleEvents[i].n \in {"ellipse", "circle"}}

\* the centre and the radius (thousandths) of a circle: the raster file gives
\* its bounding box, the vector file its centre and its radius
CircleOf(e) ==
    IF IsPilStyle
    THEN [cx |-> (e.a[1] + e.a[3]) \div 2, cy |-> (e.a[2] + e.a[4]) \div 2, r |-> (e.a[3] - e.a[1]) \div 2,
          round |-> e.a[3] - e.a[1] = e.a[4] - e.a[2], fill |-> e.col]
    ELSE [cx |-> e.a[1], cy |-> e.a[2], r |-> e.a[3], round |-> TRUE, fill |-> e.col[1]]

\* C17: in the raster file and in the vector file alike, opposite_circles
\* draws two circles in the foreground colour, the first centred at
\* (x + size/4, y + size/4), the second at (x + 3*size/4, y + 3*size/4), both
\* of radius size/4 times a factor of [0.8, 1.2].
C17_QuarterPointCircles ==
    ((IsPilStyle \/ IsSvgStyle) /\ last.p.name = "opposite_circles") =>
        /\ Cardinality(CircleOps) = 2
        /\ \A i \in CircleOps :
              LET c == CircleOf(StyleEvents[i])
                  q == IF i = First(CircleOps) THEN 250 ELSE 750
              IN /\ c.round /\ c.fill = last.p.foreground
                 /\ c.cx = P(last.p.x) + q * last.p.square_size
                 /\ c.cy = P(last.p.y) + q * last.p.square_size
                 /\ 200 * last.p.square_size <= c.r /\ c.r <= 300 * last.p.square_size

\* the vector opposite_circles has drawn its two circles around the centre of
\* the square, with a radius of at least 0.4 * size
C17_BothAtCentreSeen ==
    /\ IsSvgStyle /\ last.p.name = "opposite_circles"
    /\ Cardinality(CircleOps) = 2
    /\ \A i \in CircleOps :
          /\ CircleOf(StyleEvents[i]).cx = P(last.p.x) + 500 * last.p.square_size
          /\ CircleOf(StyleEvents[i]).cy = P(last.p.y) + 500 * last.p.square_size
          /\ CircleOf(StyleEvents[i]).r >= 400 * last.p.square_size

(***************************************************************************)
(* C18  A rotation keeps the centre of the square.                         *)
(***************************************************************************)
\* the pastes of a raster style call: a = <<paste_x, paste_y, side, angle>>
PasteOps == {i \in 1..Len(StyleEvents) : StyleEvents[i].t = "op" /\ StyleEvents[i].n = "paste"}

\* the elements of a vector style call that carry rotate(angle cx cy): the
\* transform is the end of their arguments
RotateOps == {i \in 1..Len(StyleEvents) : StyleEvents[i].t = "op" /\ StyleEvents[i].n \in {"group", "text"}
                                          /\ Len(StyleEvents[i].a) >= 3}

RotatingStyles == {"cross", "letter_block", "rotated_shape"}

\* C18: draw_rotated_image pastes the buffer at exactly (x, y) when the angle
\* is 0, and for every other angle of the list it pastes the enlarged buffer
\* so that its centre is less than one pixel away, in x and in y, from the
\* centre (x + size/2, y + size/2) of the buffer it was given; the vector
\* file writes rotate(angle cx cy) with (cx, cy) the centre of the square.
C18_PivotFixed ==
    /\ (IsPilStyle /\ last.p.name \in RotatingStyles /\ StyleExc(last.res) = "") =>
          /\ Cardinality(PasteOps) = 1
          /\ \A i \in PasteOps :
                LET a == StyleEvents[i].a
                IN /\ InSeq(a[4], RotationAngles)
                   /\ a[4] = 0 => (a[1] = last.p.x /\ a[2] = last.p.y /\ a[3] = last.p.square_size)
                   /\ a[3] >= last.p.square_size
                   /\ Abs((2 * a[1] + a[3]) - (2 * last.p.x + last.p.square_size)) < 2
                   /\ Abs((2 * a[2] + a[3]) - (2 * last.p.y + last.p.square_size)) < 2
    /\ (IsSvgStyle /\ last.p.name \in RotatingStyles) =>
          /\ Cardinality(RotateOps) = 1
          /\ \A i \in RotateOps :
                LET a == StyleEvents[i].a
                IN /\ InSeq(a[Len(a) - 2], RotationAngles)
                   /\ a[Len(a) - 1] = P(last.p.x) + 500 * last.p.square_size
                   /\ a[Len(a)] = P(last.p.y) + 500 * last.p.square_size

\* the raster rotated_shape has turned its buffer of side 15 by 45 degrees at
\* the origin and pasted the enlarged buffer at negative coordinates
C18_EnlargedPasteSeen ==
    /\ IsPilStyle /\ last.p.name = "rotated_shape" /\ last.p.x = 0 /\ last.p.square_size = 15
    /\ \E i \in PasteOps :
          /\ StyleEvents[i].a[4] = 45
          /\ StyleEvents[i].a[3] > 15
          /\ StyleEvents[i].a[1] < 0

(***************************************************************************)
(* C19  The cells tile the canvas.                                         *)
(***************************************************************************)
AllCells == {<<r, c>> : r \in 0..(RowsOf - 1), c \in 0..(ColsOf - 1)}

\* the square <<x0, y0, x1, y1>> the style of a cell starts by filling
CellSquare(cell) ==
    LET a == Events[First(StepOf("shape", cell))].a
    IN IF IsPil THEN a ELSE <<a[1], a[2], a[1] + a[3], a[2] + a[4]>>

\* two squares with no point of their insides in common
Apart(s, t) == s[3] <= t[1] \/ t[3] <= s[1] \/ s[4] <= t[2] \/ t[4] <= s[2]

\* the rectangle of the background that covers the canvas
CanvasOps == {i \in StepOf("background", << >>) : Events[i].t = "op" /\ Events[i].n \in {"rectangle", "rect"}
                                                   /\ SubSeq(Events[i].a, 1, 2) = <<0, 0>>}

\* C19: in a run that returns, the canvas is cols * square_size wide and
\* rows * square_size high; each cell <<r, c>> of the grid has exactly one
\* choice of a style and one call of it, at the origin (c * square_size,
\* r * square_size) with the side square_size; no other cell is drawn, the
\* squares of two cells never overlap, they lie in the canvas and their areas
\* add up to the area of the canvas.
C19_GridTiling ==
    (Generated /\ last.res.status = "ok") =>
        /\ last.res.width = ColsOf * last.p.square_size
        /\ last.res.height = RowsOf * last.p.square_size
        /\ \E i \in CanvasOps : Events[i].a = <<0, 0, P(last.res.width), P(last.res.height)>>
        /\ CellsDrawn = AllCells
        /\ Cardinality({i \in 1..Len(Events) : Events[i].ph = "style"}) = RowsOf * ColsOf
        /\ \A cell \in AllCells :
              /\ Cardinality(StepOf("style", cell)) = 1
              /\ Before(StepOf("style", cell), StepOf("shape", cell))
              /\ FillsCell(Events[First(StepOf("shape", cell))], cell)
              /\ CellSquare(cell)[1] >= 0 /\ CellSquare(cell)[3] <= P(last.res.width)
              /\ CellSquare(cell)[2] >= 0 /\ CellSquare(cell)[4] <= P(last.res.height)
              /\ \A other \in AllCells \ {cell} : Apart(CellSquare(cell), CellSquare(other))
        /\ Cardinality(AllCells) * last.p.square_size * last.p.square_size = last.res.width * last.res.height

\* a vector run of a grid of 2 rows and 3 columns has returned, its cell
\* <<1, 2>> filled at (2 * square_size, square_size)
C19_WideGridTiled ==
    /\ IsSvg /\ last.res.status = "ok"
    /\ RowsOf = 2 /\ ColsOf = 3
    /\ CellSquare(<<1, 2>>)[1] = P(2 * last.p.square_size)
    /\ CellSquare(<<1, 2>>)[2] = P(last.p.square_size)

(***************************************************************************)
(* C20  The inset of the raster background.                                *)
(***************************************************************************)
\* the drawing operations of the background, in their order
BackgroundOps == {i \in StepOf("background", << >>) : Events[i].t = "op"}

\* max(10, 10% of min(width, height)), in whole pixels
InsetOf(width, height) == Max2(10, Min2(width, height) \div 10)

BgColorsOf == pil_create_background_colors(PIL_DEFAULT_PALETTES_DATA[last.res.palette + 1])

\* the fill of the whole canvas in the outer colour
IsOuterFill(e) ==
    /\ e.n = "rectangle" /\ e.col = BgColorsOf.bg_outer
    /\ e.a = <<0, 0, P(last.res.width), P(last.res.height)>>

\* the rectangle in the inner colour, inset on the four sides
IsInnerFill(e) ==
    LET inset == InsetOf(last.res.width, last.res.height)
    IN /\ e.n = "rectangle" /\ e.col = BgColorsOf.bg_inner
       /\ e.a = <<P(inset), P(inset), P(last.res.width - inset), P(last.res.height - inset)>>

RoomForInset ==
    /\ last.res.width > 2 * InsetOf(last.res.width, last.res.height)
    /\ last.res.height > 2 * InsetOf(last.res.width, last.res.height)

CellEvents == {i \in 1..Len(Events) : Events[i].ph # "background"}

\* C20 as stated: whatever the size of the canvas, the raster background is the
\* fill of the whole canvas in the outer colour followed by the rectangle in the
\* inner colour inset by max(10, 10% of min(width, height)) on the four sides,
\* both before anything of a cell.
C20_InsetOnEveryCanvas ==
    (IsPil /\ last.res.status = "ok") =>
        /\ Cardinality(BackgroundOps) = 2
        /\ \E i \in BackgroundOps : \E j \in BackgroundOps :
              i < j /\ IsOuterFill(Events[i]) /\ IsInnerFill(Events[j])
        /\ Before(BackgroundOps, CellEvents)

\* C20 amended: the raster background starts with the fill of the whole canvas
\* in the outer colour; the rectangle in the inner colour, inset by
\* max(10, 10% of min(width, height)) on the four sides, follows it exactly
\* when the width and the height are both more than twice the inset, and a
\* smaller canvas gets the outer fill alone; the background comes before
\* anything of a cell.
C20_InsetWhenRoom ==
    (IsPil /\ last.res.status = "ok") =>
        /\ BackgroundOps # {}
        /\ IsOuterFill(Events[First(BackgroundOps)])
        /\ IF RoomForInset
           THEN /\ Cardinality(BackgroundOps) = 2
                /\ \A j \in BackgroundOps \ {First(BackgroundOps)} : IsInnerFill(Events[j])
           ELSE Cardinality(BackgroundOps) = 1
        /\ Before(BackgroundOps, CellEvents)

\* a raster run on a canvas of 120 by 120 pixels has drawn the inner rectangle
\* with an inset of 12 pixels
C20_TwelvePixelInsetSeen ==
    /\ IsPil /\ last.res.status = "ok"
    /\ last.res.width = 120 /\ last.res.height = 120
    /\ \E j \in BackgroundOps : Events[j].a = <<P(12), P(12), P(108), P(108)>>

(***************************************************************************)
(* C21  The three shapes of rotated_shape.                                 *)
(***************************************************************************)
RotatedShapeCall == (IsPilStyle \/ IsSvgStyle) /\ last.p.name = "rotated_shape"

RotatedShapeBy == {"draw_pil_rotated_shape", "draw_rotated_shape"}

\* the draws of shape_type = random.choice(['rect', 'circle', 'ellipse'])
ShapeChoices == {i \in 1..Len(StyleEvents) : StyleEvents[i].t = "draw" /\ StyleEvents[i].n = "choice"
                                             /\ StyleEvents[i].by \in RotatedShapeBy}

\* the shapes drawn in the foreground colour: all the operations but the fill
\* of the square and, in the raster, the paste; in the vector file the group
ShapeOps == {i \in 2..Len(StyleEvents) : StyleEvents[i].t = "op" /\ StyleEvents[i].by \in RotatedShapeBy
                                         /\ StyleEvents[i].n \in {"tmp.rectangle", "tmp.ellipse", "rect",
                                                                  "circle", "ellipse"}}

\* <<width, height>> of a shape, in thousandths of a pixel
ExtentOf(e) ==
    CASE e.n \in {"tmp.rectangle", "tmp.ellipse"} -> <<e.a[3] - e.a[1], e.a[4] - e.a[2]>>
      [] e.n = "rect"                             -> <<e.a[3], e.a[4]>>
      [] e.n = "circle"                           -> <<2 * e.a[3], 2 * e.a[3]>>
      [] OTHER                                    -> <<2 * e.a[3], 2 * e.a[4]>>

\* C21: rotated_shape draws one choice among rect, circle and ellipse and one
\* shape for it; the shape of a circle is as wide as it is high, in the raster
\* and in the vector file; the width and the height of a rect are both
\* between 1 pixel and 0.9 * square_size.
C21_ShapeVariants ==
    (RotatedShapeCall /\ StyleExc(last.res) = "") =>
        /\ Cardinality(ShapeChoices) = 1
        /\ Cardinality(ShapeOps) = 1
        /\ \A i \in ShapeChoices : \A j \in ShapeOps :
              LET shape_type == StyleEvents[i].a[1]
                  extent == ExtentOf(StyleEvents[j])
              IN /\ shape_type \in 1..3
                 /\ shape_type = 1 <=> StyleEvents[j].n \in {"tmp.rectangle", "rect"}
                 /\ shape_type = 1 =>
                       /\ 1000 <= extent[1] /\ extent[1] <= 900 * last.p.square_size
                       /\ 1000 <= extent[2] /\ extent[2] <= 900 * last.p.square_size
                 /\ shape_type = 2 => extent[1] = extent[2]

\* the raster rotated_shape chose 'circle' and drew an ellipse that is wider
\* than it is high or higher than it is wide
C21_UnevenCircleSeen ==
    /\ IsPilStyle /\ last.p.name = "rotated_shape"
    /\ \E i \in ShapeChoices : StyleEvents[i].a[1] = 2
    /\ \E j \in ShapeOps : StyleEvents[j].n = "tmp.ellipse"
                           /\ ExtentOf(StyleEvents[j])[1] # ExtentOf(StyleEvents[j])[2]

(***************************************************************************)
(* C22  The nested circles of the circle style.                            *)
(***************************************************************************)
CircleCall == (IsPilStyle \/ IsSvgStyle) /\ last.p.name = "circle"

\* the circle number k (from 1) of a style call
NthCircle(k) == CircleOf(StyleEvents[CHOOSE i \in CircleOps : Cardinality({j \in CircleOps : j <= i}) = k])

\* a fill in the colour c; the raster file may give it another alpha
FilledIn(fill, c) == IF IsPilStyle THEN SubSeq(fill, 1, 3) = SubSeq(c, 1, 3) ELSE fill = c

\* C22: the circle style draws, after the fill of the square, one to three
\* circles around the centre of the square: the main circle in the foreground
\* colour with a radius of at most size / 2; after it, if at all, the inner
\* circle in the background colour with a smaller radius; and only after an
\* inner circle, if at all, the tiny circle in the foreground colour with a
\* radius smaller than the inner circle's.
C22_CircleNesting ==
    CircleCall =>
        /\ Cardinality(CircleOps) \in 1..3
        /\ \A k \in 1..Cardinality(CircleOps) :
              /\ NthCircle(k).round
              /\ NthCircle(k).cx = P(last.p.x) + 500 * last.p.square_size
              /\ NthCircle(k).cy = P(last.p.y) + 500 * last.p.square_size
              /\ FilledIn(NthCircle(k).fill, IF k = 2 THEN last.p.background ELSE last.p.foreground)
              /\ k > 1 => NthCircle(k).r < NthCircle(k - 1).r
        /\ NthCircle(1).r <= 500 * last.p.square_size
        /\ StyleEvents[1].t = "op" /\ StyleEvents[1].n \in {"rectangle", "rect"}

\* the raster circle style has drawn its three circles in a square of side 15
C22_ThreeCirclesSeen ==
    /\ IsPilStyle /\ last.p.name = "circle" /\ last.p.square_size = 15
    /\ Cardinality(CircleOps) = 3
    /\ NthCircle(3).r > 0

(***************************************************************************)
(* C24  The stripes of the raster file stay in the square.                 *)
(***************************************************************************)
PilStripesCall == IsPilStyle /\ last.p.name = "stripes"

\* the rectangles of the stripes: every rectangle after the fill of the square
StripeOps == {i \in 2..Len(StyleEvents) : StyleEvents[i].t = "op" /\ StyleEvents[i].n = "rectangle"}

\* the draws of num_stripes
StripeCounts == {i \in 1..Len(StyleEvents) : StyleEvents[i].t = "draw" /\ StyleEvents[i].n = "randint"
                                             /\ StyleEvents[i].by = "draw_pil_stripes"}

\* a rectangle <<x0, y0, x1, y1>> inside the square of the call
InSquare(a) ==
    /\ P(last.p.x) <= a[1] /\ a[1] <= a[3] /\ a[3] <= P(last.p.x + last.p.square_size)
    /\ P(last.p.y) <= a[2] /\ a[2] <= a[4] /\ a[4] <= P(last.p.y + last.p.square_size)

\* C24: every rectangle the raster stripes style draws for a stripe lies in
\* the square [x, x + size] x [y, y + size] of its call, and the number of
\* stripes it draws first is between 3 + floor(2 * chaos) and
\* 7 + floor(4 * chaos).
C24_StripesInSquare ==
    PilStripesCall =>
        /\ Cardinality(StripeCounts) = 1
        /\ \A i \in StripeCounts :
              /\ 3 + (2 * last.p.chaos_factor) \div 100 <= StyleEvents[i].a[1]
              /\ StyleEvents[i].a[1] <= 7 + (4 * last.p.chaos_factor) \div 100
        /\ \A i \in StripeOps : InSquare(StyleEvents[i].a)

\* the raster stripes style, without chaos, has drawn a stripe that ends
\* beyond the far side of its square
C24_StripeBeyondSquareSeen ==
    /\ PilStripesCall /\ last.p.chaos_factor = 0
    /\ \E i \in StripeOps : ~InSquare(StyleEvents[i].a)

(***************************************************************************)
(* C25  The base grid does not depend on the big-block settings.           *)
(***************************************************************************)
\* the request p with the big-block settings b
WithBigBlocks(p, b) ==
    IF IsPil
    THEN [p EXCEPT !.big_block_enabled = b.on, !.big_block_size_multiplier = b.m, !.num_big_blocks = b.n]
    ELSE [p EXCEPT !.big_block_enabled = b.on, !.big_block_size = b.m]

\* the events of a run that are not of a big block
BaseIndexes(ev) == {i \in 1..Len(ev) : ev[i].ph \notin BigBlockPhases}

\* the events of a run up to its first event of a big block
BaseGrid(ev) == SubSeq(ev, 1, Cardinality(BaseIndexes(ev)))

\* C25: for a fixed non-negative integer seed and otherwise fixed parameters,
\* the draws and the drawing operations of the background and of the
\* rows * cols cells are the same, in the same order, for every setting of
\* big_block_enabled, of the multiplier and of the number of big blocks, and
\* all the draws and operations of the big blocks come after them.
C25_BaseGridIndependent ==
    (Generated /\ NonNegativeIntSeed) =>
        /\ BaseIndexes(Events) = 1..Cardinality(BaseIndexes(Events))
        /\ \A b \in BigBlockSettings :
              LET other == Rerun(WithBigBlocks(last.p, b), rng, 0)
              IN /\ BaseIndexes(other.ev) = 1..Cardinality(BaseIndexes(other.ev))
                 /\ BaseGrid(other.ev) = BaseGrid(Events)
                 /\ ~b.on => other.ev = BaseGrid(Events)

\* a seeded raster run of a 3 x 3 grid has drawn two big blocks of multiplier
\* 2 after the draws and the operations of its cells
C25_BlocksAppendedSeen ==
    /\ IsPil /\ NonNegativeIntSeed /\ last.res.status = "ok"
    /\ RowsOf = 3 /\ ColsOf = 3 /\ last.p.big_block_enabled /\ MultiplierOf = 2
    /\ Len(last.res.blocks) = 2
    /\ Cardinality(BaseIndexes(Events)) > 0
    /\ Len(Events) > Cardinality(BaseIndexes(Events))

(***************************************************************************)
(* C26  Without chaos the raster styles deviate in nothing.                *)
(***************************************************************************)
\* a raster style called with chaos_factor = 0 and the opaque foreground
\* pil_get_two_colors returns for it
ZeroChaosCall == IsPilStyle /\ last.p.chaos_factor = 0 /\ last.p.foreground[4] = 255

\* the element number k (from 1) of a set of positions
NthOf(S, k) == CHOOSE i \in S : Cardinality({j \in S : j <= i}) = k

ColouredOps == {i \in 1..Len(StyleEvents) : StyleEvents[i].t = "op" /\ StyleEvents[i].col # << >>}

PolygonOps == {i \in 1..Len(StyleEvents) : StyleEvents[i].t = "op" /\ StyleEvents[i].n = "polygon"}

\* the corners of the square of the call, as <<x, y>>
CornersOfSquare ==
    {<<P(last.p.x + dx), P(last.p.y + dy)>> : dx \in {0, last.p.square_size}, dy \in {0, last.p.square_size}}

\* rows_dots of a call of the dots style without chaos, from the index its
\* random.choice([4, 9, 16, 16]) drew
DotsPerSide ==
    LET ci == StyleEvents[NthOf({i \in 1..Len(StyleEvents) : StyleEvents[i].n = "choice"}, 1)].a[1]
    IN IF ci = 1 THEN 2 ELSE IF ci = 2 THEN 3 ELSE 4

\* the centres of the cells of the dots: (x + (i + 0.5) * cell_s, y + (j + 0.5) * cell_s)
DotCentres ==
    {<<P(last.p.x) + ((2 * i + 1) * ((1000 * last.p.square_size) \div DotsPerSide)) \div 2,
       P(last.p.y) + ((2 * j + 1) * ((1000 * last.p.square_size) \div DotsPerSide)) \div 2>> :
        i \in 0..(DotsPerSide - 1), j \in 0..(DotsPerSide - 1)}

IsRRGGBB(e) ==
    /\ e.str /\ Len(e.s) = 7 /\ e.s[1] = "#"
    /\ \A i \in 2..7 : InSeq(e.s[i], HexDigitsUpper)

\* the base colour <<r, g, b>> of the generated palette number k (from 1)
BaseColorOf(k) == <<64 * ((k - 1) \div 16), 64 * (((k - 1) \div 4) % 4), 64 * ((k - 1) % 4)>>

Shifted(v) == (v + 128) % 256

InStore(palette) == \E k \in 1..Len(PIL_DEFAULT_PALETTES_DATA) : PIL_DEFAULT_PALETTES_DATA[k] = palette

\* the store as the import of the file builds it
StoreAsBuilt ==
    /\ Len(PIL_DEFAULT_PALETTES_DATA) = 4 + 64
    /\ SubSeq(PIL_DEFAULT_PALETTES_DATA, 1, 4) = StaticPalettes
    /\ \A k \in 1..64 :
          LET palette == PIL_DEFAULT_PALETTES_DATA[4 + k]
              c == BaseColorOf(k)
          IN /\ Len(palette) = 3
             /\ HexColorRgb(palette[1]) = c
             /\ HexColorRgb(palette[2]) = <<Shifted(c[2]), Shifted(c[3]), Shifted(c[1])>>
             /\ HexColorRgb(palette[3]) = <<Shifted(c[3]), Shifted(c[1]), Shifted(c[2])>>
             /\ \A i \in 1..3 : \A j \in 1..3 : HexColorRgb(palette[i])[j] \in 0..255
    /\ \A k \in 1..Len(PIL_DEFAULT_PALETTES_DATA) :
          /\ \A i \in 1..Len(PIL_DEFAULT_PALETTES_DATA[k]) : IsRRGGBB(PIL_DEFAULT_PALETTES_DATA[k][i])
          /\ Cardinality(RgbsOf(PIL_DEFAULT_PALETTES_DATA[k])) >= 2

\* C27: DEFAULT_PALETTES_DATA of the raster file holds the 4 static palettes
\* followed by 64 generated ones; a generated palette is its base colour
\* (r, g, b) followed by (g+128, b+128, r+128) and (b+128, r+128, g+128), each
\* channel taken mod 256 and within 0..255; every entry of every palette is
\* '#' and six hex digits; every palette holds at least two different
\* colours; and on a palette of the store pil_create_background_colors and
\* pil_get_two_colors never take their fallback: the background is mixed from
\* the palette, the pair is two different colours of the palette.
C27_StoreWellFormed ==
    /\ last = NoLast => StoreAsBuilt
    /\ (last.call = "pil_create_background_colors" /\ InStore(last.p.color_palette)) => ~last.res.fallback
    /\ (last.call = "pil_get_two_colors" /\ InStore(last.p.color_palette)) =>
          /\ last.res.exc = ""
          /\ InSeq(last.res.bg_hex, last.p.color_palette) /\ InSeq(last.res.fg_hex, last.p.color_palette)
          /\ SubSeq(last.res.foreground, 1, 3) # SubSeq(last.res.background, 1, 3)

\* pil_get_two_colors has returned a pair of the first generated palette,
\* #000000 with #808080 twice
C27_PairOfGrayTriadSeen ==
    /\ last.call = "pil_get_two_colors"
    /\ last.p.color_palette = PIL_DEFAULT_PALETTES_DATA[5]
    /\ last.p.color_palette[2] = last.p.color_palette[3]
    /\ last.res.exc = ""
    /\ SubSeq(last.res.foreground, 1, 3) # SubSeq(last.res.background, 1, 3)

(***************************************************************************)
(* C23, C28, C29: the humanoid generator.                                  *)
(***************************************************************************)
HumanoidCall == last.call = "humanoid_generate_art_svg_string" /\ last.res.status = "ok"

HumanoidEvents == last.res.ev

\* the elements of the characters: the shapes the create_ functions add
BodyParts == {i \in 1..Len(HumanoidEvents) : HumanoidEvents[i].t = "op"}

\* the number of the events of one character: three choices and the shapes of
\* generate_humanoid_svg
EventsPerHumanoid == Len(humanoid_body(HumanoidBase, humanoid_layout(150, 1), [s |-> 0, t |-> << >>], 0).ev)

NthHumanoidEvent(idx, k) == HumanoidEvents[EventsPerHumanoid * idx + k]

InsideCanvas(box, lay) ==
    /\ 0 <= box[1] /\ box[1] <= box[3] /\ box[3] <= Q(lay.svg_width)
    /\ 0 <= box[2] /\ box[2] <= box[4] /\ box[4] <= Q(lay.svg_height)

\* C23: for every character size, count and proportion the window permits,
\* every body part of every character (head, neck, torso, arms, legs) lies
\* inside the canvas [0, svg_width] x [0, svg_height].
C23_PartsInsideCanvas ==
    HumanoidCall => \A i \in BodyParts : InsideCanvas(HumanoidEvents[i].a, last.res.lay)

\* what the padding does ensure: no part is left of, right of or above the
\* canvas, and a part is below it only if torso_height + leg_length > 1.5
C23_PartsInsideButBelow ==
    HumanoidCall =>
        /\ \A i \in BodyParts :
              /\ 0 <= HumanoidEvents[i].a[1] /\ HumanoidEvents[i].a[3] <= Q(last.res.lay.svg_width)
              /\ 0 <= HumanoidEvents[i].a[2]
        /\ last.p.torso_height + last.p.leg_length <= 150 =>
              \A i \in BodyParts : HumanoidEvents[i].a[4] <= Q(last.res.lay.svg_height)

\* one character of size 150 with torso_height 1.0 and leg_length 1.0: its
\* legs end at y = 450 on a canvas of height 375
C23_LegsBelowCanvasSeen ==
    /\ HumanoidCall
    /\ last.p.character_size = 150 /\ last.p.num_humanoids = 1
    /\ last.p.torso_height = 100 /\ last.p.leg_length = 100
    /\ last.res.lay.svg_height = 375
    /\ \E i \in BodyParts : HumanoidEvents[i].n = "leg" /\ HumanoidEvents[i].a[4] = Q(450)

\* C28: for every count n >= 1, grid_cols = floor(sqrt(n)) >= 1 and
\* grid_rows = ceil(n / grid_cols); the character idx of 0..n-1 is placed in
\* the cell (idx div grid_cols, idx mod grid_cols), its torso centred on the
\* centre column of that cell, with row < grid_rows and col < grid_cols, and
\* no two characters share a cell.
C28_HumanoidGrid ==
    HumanoidCall =>
        LET n    == last.p.num_humanoids
            lay  == last.res.lay
            size == last.p.character_size
        IN /\ lay.grid_cols >= 1
           /\ lay.grid_cols * lay.grid_cols <= n /\ n < (lay.grid_cols + 1) * (lay.grid_cols + 1)
           /\ (lay.grid_rows - 1) * lay.grid_cols < n /\ n <= lay.grid_rows * lay.grid_cols
           /\ Len(last.res.cells) = n
           /\ \A idx \in 0..(n - 1) :
                 /\ last.res.cells[idx + 1] = <<idx \div lay.grid_cols, idx % lay.grid_cols>>
                 /\ last.res.cells[idx + 1][1] < lay.grid_rows
                 /\ last.res.cells[idx + 1][2] < lay.grid_cols
                 /\ NthHumanoidEvent(idx, 6).n = "torso"
                 /\ NthHumanoidEvent(idx, 6).a[1] + NthHumanoidEvent(idx, 6).a[3]
                       = 2 * Q((idx % lay.grid_cols) * size + lay.padding_sides + size \div 2)
                 /\ NthHumanoidEvent(idx, 6).a[2]
                       = Q((idx \div lay.grid_cols) * size + lay.padding_top + size \div 2)
           /\ \A i \in 1..n : \A j \in 1..n : i # j => last.res.cells[i] # last.res.cells[j]

\* five characters on a grid of 2 columns and 3 rows, the last one alone in
\* the third row
C28_FiveOnTwoByThreeSeen ==
    /\ HumanoidCall
    /\ last.p.num_humanoids = 5
    /\ last.res.lay.grid_cols = 2 /\ last.res.lay.grid_rows = 3
    /\ last.res.cells[5] = <<2, 0>>

AnimationPieces == {i \in 1..Len(last.res.doc) : last.res.doc[i] = BreathingAnimation}

ClosingTags == {i \in 1..Len(last.res.doc) : last.res.doc[i] = "</svg>"}

\* C29: after n characters the returned document holds exactly n
\* animateTransform tags, all immediately before the single closing tag,
\* which stays the end of the document; the loop inserts the tags of a list
\* in the list's order; and the colours of each character are drawn in the
\* order skin, shirt, pants, the parts filled with the colours drawn.
C29_AnimationTags ==
    /\ append_animations(<<"<svg>", "</svg>">>, <<"a", "b", "c">>) = <<"<svg>", "a", "b", "c", "</svg>">>
    /\ HumanoidCall =>
          LET n   == last.p.num_humanoids
              doc == last.res.doc
          IN /\ Cardinality(AnimationPieces) = n
             /\ ClosingTags = {Len(doc)}
             /\ AnimationPieces = (Len(doc) - n)..(Len(doc) - 1)
             /\ SubSeq(doc, 1, Len(doc) - n - 1) = SubSeq(DrawingToString(n), 1, n + 2)
             /\ Len(HumanoidEvents) = EventsPerHumanoid * n
             /\ \A idx \in 0..(n - 1) :
                   /\ NthHumanoidEvent(idx, 1).n = "choice skin"
                   /\ NthHumanoidEvent(idx, 2).n = "choice shirt"
                   /\ NthHumanoidEvent(idx, 3).n = "choice pants"
                   /\ \A k \in 1..3 : NthHumanoidEvent(idx, k).t = "draw"
                   /\ \A k \in 4..EventsPerHumanoid : NthHumanoidEvent(idx, k).t = "op"
                   /\ last.p.seed.kind = "int" =>
                         \A k \in 1..3 :
                            NthHumanoidEvent(idx, k).a[1] = ChoiceIdx(D(SeedState(last.p.seed.v), 3 * idx + k), 3)
                   /\ NthHumanoidEvent(idx, 4).col = <<PantsColors[NthHumanoidEvent(idx, 3).a[1]]>>
                   /\ NthHumanoidEvent(idx, 6).col = <<ShirtColors[NthHumanoidEvent(idx, 2).a[1]]>>
                   /\ NthHumanoidEvent(idx, 8).n = "head"
                   /\ NthHumanoidEvent(idx, 8).col = <<SkinColors[NthHumanoidEvent(idx, 1).a[1]]>>

\* three characters: the document ends with three animation tags and the
\* closing tag
C29_ThreeTagsSeen ==
    /\ HumanoidCall
    /\ last.p.num_humanoids = 3
    /\ Len(last.res.doc) = 9
    /\ SubSeq(last.res.doc, 6, 9) = <<BreathingAnimation, BreathingAnimation, BreathingAnimation, "</svg>">>

(***************************************************************************)
(* C30: the save flow of the two windows.                                  *)
(***************************************************************************)
HandlerSteps == <<"collect", "dialog", "generate", "write">>

StepDone(step) == \E i \in 1..Len(req.steps) : req.steps[i] = step

ParametersCollected == get_generation_parameters(req.clicked).ok

DialogCancelled == StepDone("dialog") /\ req.output_path = << >>

\* C30: in run_generation_and_save the steps run in the order parameter
\* collection, save dialog, generator, write; a file is written only if the
\* parameters were collected, a path was chosen and the generator returned a
\* string, and it holds that string under the path chosen; if the collection
\* fails or the dialog is cancelled the generator is never invoked and the
\* random module keeps its state; if the generator returns None or raises, no
\* file is written.
C30_SaveFlow ==
    HandlerRuns =>
        /\ req.steps = SubSeq(HandlerSteps, 1, Len(req.steps))
        /\ req.written # << >> =>
              /\ req.steps = HandlerSteps
              /\ ParametersCollected
              /\ req.output_path # << >>
              /\ last.res.status = "ok"
              /\ req.written = <<[path |-> req.output_path, data |-> SvgDataStr(req.clicked, last.res)]>>
              /\ endswith(lower(req.output_path), DotSvg)
        /\ (StepDone("collect") /\ (~ParametersCollected \/ DialogCancelled)) =>
              /\ ~StepDone("generate")
              /\ req.pc = "done"
              /\ rng = req.rng_at_click
              /\ last = NoLast
              /\ req.written = << >>
        /\ (last # NoLast /\ last.res.status \in {"none", "raised"}) =>
              /\ ~StepDone("write")
              /\ req.pc = "done"
              /\ req.written = << >>
        /\ rng # req.rng_at_click => StepDone("generate")

\* the dialog answered "a": the document of three characters is written to
\* "a.svg"
C30_FileWrittenSeen ==
    /\ HandlerRuns
    /\ req.clicked.window = "character" /\ req.clicked.num_chars_spin = 3
    /\ req.outcome = "saved"
    /\ Len(req.written) = 1
    /\ req.written[1].path = <<"a", ".", "s", "v", "g">>
    /\ Len(req.written[1].data) = 9

C30_CancelSeen == HandlerRuns /\ DialogCancelled /\ req.pc = "done" /\ req.outcome = "save cancelled"

C30_ParameterErrorSeen == HandlerRuns /\ req.outcome = "parameter errors" /\ req.clicked.current_palette_list # << >>

C30_RaiseSeen == HandlerRuns /\ last # NoLast /\ last.res.status = "raised" /\ req.outcome = "error"
====
